---- MODULE Spec2Model ----
(***************************************************************************)
(* A model of the Z-Machine screen engine of ferrif                        *)
(* (src/src/app/terp/screenlib.rs): the character grid, the scroll buffer  *)
(* with its line indexes, the status/upper/lower windows and the           *)
(* input/output state machine.                                             *)
(*                                                                         *)
(* Conventions.                                                            *)
(*  - A char is its code point (a number); a string is a sequence of       *)
(*    chars.                                                               *)
(*  - Offsets (starts, cursors, rows, scroll_window_top) are 0-based as in *)
(*    the source; TLA+ sequences are 1-based, so a Vec read v[i] is the    *)
(*    sequence element [i + 1].                                            *)
(*  - A method of AbstractScreen or CharGrid is an operator from the       *)
(*    screen (a record of the struct's fields) to the screen after the     *)
(*    call.  The field `panic` is set when the call panics (an index out   *)
(*    of range, a failed expect, an arithmetic overflow in a build with    *)
(*    overflow checks); a panicked screen is passed through unchanged by   *)
(*    every later operator, as the process has stopped.                    *)
(*  - usize arithmetic: with overflow checks (debug builds) an overflow    *)
(*    panics, without them (release builds) it wraps.  The field           *)
(*    overflow_checks names the build.  Wrapping is modulo USIZE_MODULUS,  *)
(*    which stands for 2^64: every honest value of the model is far below  *)
(*    it, so a wrapped value is as far out of every range as it is in the  *)
(*    program.                                                             *)
(***************************************************************************)
EXTENDS Integers, Sequences, FiniteSets

VARIABLES
    grid,                  \* CharGrid: [grid, width, height, cursor, current_style]
    state,                 \* ScreenState
    use_more,
    redraw_enabled,
    wrap_style,
    validate_size,
    line_indexes,          \* Vec<LineIndex>
    scroll_buffer,         \* the cells of the Vec<char> written so far
    scroll_buffer_length,
    window_width,
    window_height,
    scroll_window_top,
    last_input_buffer,
    max_input_length,
    input_start_location,  \* TextLocation
    status_window,
    upper_window,
    lower_window,
    selected_window,
    upper_cursor,
    status,                \* StatusBar
    panicked,              \* the process has panicked
    overflow_checks,       \* the build checks arithmetic overflow
    last_call,             \* history: the last call: [op, arg, ret, from (the state it was made in)]
    base_width,            \* history: window_width when text was last printed
    base_index,            \* history: line_indexes right after that print
    resized_away,          \* history: a resize to another width followed that print
    request_lines,         \* history: number of line indexes when input was last requested
    request_length,        \* history: scroll_buffer_length when input was last requested
    quiet,                 \* history: the interpreter has stopped calling; only keys arrive
    shown,                 \* history: the lines (by number) the lower window has shown
    runs                   \* history: the run list the last grid_to_runs call returned

vars == <<grid, state, use_more, redraw_enabled, wrap_style, validate_size,
          line_indexes, scroll_buffer, scroll_buffer_length, window_width,
          window_height, scroll_window_top, last_input_buffer, max_input_length,
          input_start_location, status_window, upper_window, lower_window,
          selected_window, upper_cursor, status, panicked, overflow_checks,
          last_call, base_width, base_index, resized_away, request_lines,
          request_length, quiet, shown, runs>>

(***************************************************************************)
(* Program constants                                                       *)
(***************************************************************************)
GRID_WIDTH == 130
GRID_HEIGHT == 25
MIN_WIDTH == 60
MIN_HEIGHT == 14
MAX_RIGHT_STATUS_WIDTH == 11
STATUS_BAR_HEIGHT == 1
MIN_CHAR == 32
MAX_CHAR == 126
BACKSPACE == 8

\* chars the source names as literals
NL == 10
SPACE == 32
QUESTION == 63

(***************************************************************************)
(* Bounds of the model                                                     *)
(***************************************************************************)
\* the number of values of a usize of the model: arithmetic wraps modulo it
\* where the build does not check for overflow
USIZE_MODULUS == 1048576
\* the most scroll buffer chars a behaviour holds
MaxBufLen == 30
\* the grid sizes a resize chooses from (draw_status needs 13 columns)
NarrowWidth == 13
WideWidth == 14
ShortHeight == 3
TallHeight == 4
\* the max_input_length a line wait asks for
MaxInput == 2
\* cap of scroll_buffer_length in SpecResize
ResizeBufLen == 25
\* cap of scroll_buffer_length in SpecMore
MoreBufLen == 8
\* cap of scroll_buffer_length in Spec
InputBufLen == 15
\* cap of scroll_buffer_length for the char by char prints of SpecWrap, the
\* most chars other than letters they print, and the most chars in the
\* buffer when a run is printed
WrapBufLen == 15
WrapBreaks == 2
RunStart == 2
\* the least grid height, the most lines a split asks for and the cap of
\* scroll_buffer_length in SpecSplit
TinyHeight == 1
SplitLines == 2
SplitBufLen == 1
\* the narrow grid width of SpecStatus (a left field of 4 cells, the least
\* that draw_status truncates to), the cap of scroll_buffer_length there
\* and how far past its field the longest right string reaches
StatusWidth == 16
StatusBufLen == 2
RightExcess == 3
\* SpecSmall: a grid width under the 12 columns of the right status field,
\* a grid width that holds each line of the "window too small" message, and
\* the cap of scroll_buffer_length
TinyWidth == 5
MessageWidth == 20
SmallBufLen == 4

(***************************************************************************)
(* Arithmetic helpers                                                      *)
(***************************************************************************)
Min(a, b) == IF a < b THEN a ELSE b
Max(a, b) == IF a > b THEN a ELSE b
SetMax(S) == CHOOSE x \in S : \A y \in S : y <= x

\* a - b and a + b on usize in a build without overflow checks
wrapping_sub(a, b) == (a - b + USIZE_MODULUS) % USIZE_MODULUS
wrapping_add(a, b) == (a + b) % USIZE_MODULUS
wrapping_mul(a, b) == (a * b) % USIZE_MODULUS

Panic(s) == [s EXCEPT !.panic = TRUE]

\* Return true if the char should be wrapped after
is_wrap_char(c) == c \in {32, 44, 33, 58, 59, 63, 46, 45}

(***************************************************************************)
(* CharGrid                                                                *)
(***************************************************************************)
DefaultCell == [ch |-> SPACE, style |-> "Normal"]

CharGrid_create(width, height) ==
    [grid |-> [i \in 0..(width * height - 1) |-> DefaultCell],
     width |-> width,
     height |-> height,
     cursor |-> 0,
     default_char |-> SPACE,
     current_style |-> "Normal"]

GridLen(g) == g.width * g.height

\* "Print" a char at the current cursor position
addch(s, ch) ==
    IF s.panic THEN s
    ELSE LET g == s.grid IN
         IF ch = NL
         THEN [s EXCEPT !.grid.cursor =
                   ((g.cursor + g.width - 1) \div g.width) * g.width]
         ELSE IF g.cursor >= GridLen(g)
              THEN Panic(s)
              ELSE [s EXCEPT !.grid.grid[g.cursor] =
                                 [ch |-> ch, style |-> g.current_style],
                             !.grid.cursor = g.cursor + 1]

\* addch for each char of a string that holds no newline: the chars go to
\* the cells from the cursor on, and the call panics when they pass the end
\* of the grid
addch_each(s, str) ==
    IF s.panic \/ str = <<>> THEN s
    ELSE LET g == s.grid IN
         IF g.cursor + Len(str) > GridLen(g)
         THEN Panic(s)
         ELSE [s EXCEPT
                 !.grid.grid =
                     [i \in DOMAIN g.grid |->
                         IF i >= g.cursor /\ i < g.cursor + Len(str)
                         THEN [ch |-> str[i - g.cursor + 1], style |-> g.current_style]
                         ELSE g.grid[i]],
                 !.grid.cursor = g.cursor + Len(str)]

\* the place of the first newline of str, 0 when it has none
first_newline(str) ==
    IF \E i \in 1..Len(str) : str[i] = NL
    THEN CHOOSE i \in 1..Len(str) :
             str[i] = NL /\ \A j \in 1..(i - 1) : str[j] # NL
    ELSE 0

\* "Print" a string at the current cursor position
RECURSIVE addstr(_, _)
addstr(s, str) ==
    IF s.panic \/ str = <<>> THEN s
    ELSE LET k == first_newline(str) IN
         IF k = 0
         THEN addch_each(s, str)
         ELSE addstr(addch(addch_each(s, SubSeq(str, 1, k - 1)), NL),
                     SubSeq(str, k + 1, Len(str)))

\* Convert a col/row to an index
to_index(g, col, row) == wrapping_add(wrapping_mul(g.width, row), col)

\* Move the cursor to the provided x/y location
mv(s, row, col) ==
    IF s.panic THEN s
    ELSE [s EXCEPT !.grid.cursor = to_index(s.grid, col, row)]

window_clear(s) ==
    IF s.panic THEN s
    ELSE [s EXCEPT !.grid.grid = [i \in DOMAIN s.grid.grid |-> DefaultCell]]

\* Clear to the end of the current line
clrtoeol(s) ==
    IF s.panic THEN s
    ELSE LET g == s.grid
             row_end == ((g.cursor \div g.width) + 1) * g.width
         IN  IF g.cursor >= GridLen(g)
             THEN Panic(s)
             ELSE [s EXCEPT !.grid.grid =
                       [i \in DOMAIN g.grid |->
                           IF i >= g.cursor /\ i < row_end
                           THEN [g.grid[i] EXCEPT !.ch = g.default_char]
                           ELSE g.grid[i]]]

set_reverse(s, b) ==
    IF s.panic THEN s
    ELSE [s EXCEPT !.grid.current_style = IF b THEN "Inverted" ELSE "Normal"]

get_cur_yx(g) == <<g.cursor \div g.width, g.cursor % g.width>>

\* grid_to_runs that reports every cell with the style it stores
run_style_as_stored(g, show_cursor, idx) == g.grid[idx].style

\* grid_to_runs: the style a cell is reported with.  "Always use inverted
\* style if cursor active"
run_style(g, show_cursor, idx) ==
    IF show_cursor /\ idx = g.cursor THEN "Inverted" ELSE g.grid[idx].style

\* grid_to_runs: "Push existing run if style changed".  r holds the loop's
\* variables: v, the runs pushed so far, s, the text of the run being built,
\* and last_style, its style ("None" before the first cell)
grid_to_runs_push_run(r, style) ==
    IF r.last_style # style
    THEN [r EXCEPT !.v = Append(@, [line |-> r.s, style |-> r.last_style]),
                   !.s = <<>>]
    ELSE r

\* grid_to_runs: the rest of the loop body for cell idx: the newline that
\* starts a row, then the char of the cell
grid_to_runs_push_char(g, idx, r, style) ==
    [r EXCEPT !.s = Append(IF idx > 0 /\ idx % g.width = 0 THEN Append(@, NL) ELSE @,
                           g.grid[idx].ch),
              !.last_style = style]

RECURSIVE grid_to_runs_loop(_, _, _, _)
\* grid_to_runs: for idx in 0..self.grid.len()
grid_to_runs_loop(g, show_cursor, idx, r) ==
    IF idx >= GridLen(g) THEN r
    ELSE IF r.last_style = "None"
    THEN grid_to_runs_loop(g, show_cursor, idx + 1,
             grid_to_runs_push_char(g, idx, r, run_style(g, show_cursor, idx)))
    ELSE grid_to_runs_loop(g, show_cursor, idx + 1,
             grid_to_runs_push_char(g, idx,
                 grid_to_runs_push_run(r, run_style(g, show_cursor, idx)),
                 run_style(g, show_cursor, idx)))

\* grid_to_runs: the push of the last run, after the loop
grid_to_runs_last(r) ==
    IF r.last_style # "None"
    THEN Append(r.v, [line |-> r.s, style |-> r.last_style])
    ELSE r.v

\* grid_to_runs: the whole body, from no run, an empty string and no style
grid_to_runs_all(g, show_cursor) ==
    grid_to_runs_last(grid_to_runs_loop(g, show_cursor, 0,
                          [v |-> <<>>, s |-> <<>>, last_style |-> "None"]))

\* grid_to_runs that stores the cursor's inverted style in the cell
grid_to_runs_marking_cursor(g, show_cursor) ==
    [self |-> IF show_cursor /\ g.cursor < GridLen(g)
              THEN [g EXCEPT !.grid[g.cursor].style = "Inverted"]
              ELSE g,
     v |-> grid_to_runs_all(g, show_cursor)]

\* CharGrid::grid_to_runs(&self, show_cursor): the grid after the call (the
\* method borrows it immutably) and the Vec<(String, CharStyle)> returned
grid_to_runs(g, show_cursor) ==
    [self |-> g,
     v |-> grid_to_runs_all(g, show_cursor)]

(***************************************************************************)
(* ScreenWindow, TextLocation                                              *)
(***************************************************************************)
ScreenWindow_height(w) ==
    IF w.bottom_index < w.top_index THEN 0 ELSE w.bottom_index - w.top_index

TextLocation_empty == [line_start |-> 0, char_index |-> 0, line_width |-> 0]

calculate_absolute_location(loc) ==
    (loc.line_start * loc.line_width) + loc.char_index

(***************************************************************************)
(* AbstractScreen: reads                                                   *)
(***************************************************************************)
get_screen_width(s) == s.window_width
get_screen_height(s) == s.window_height

is_size_valid(s) ==
    IF ~s.validate_size
    THEN TRUE
    ELSE get_screen_height(s) >= MIN_HEIGHT /\ get_screen_width(s) >= MIN_WIDTH

waiting_for_input(s) == s.state # "Output"

\* Return last input entered by player.
last_input(s) == s.last_input_buffer

is_cursor_visible(s) == s.state = "WaitingForLine"

\* scroll_buffer[i]: the Vec is pre-allocated with ' ', so a cell that was
\* never written reads as ' ' (and a cell above scroll_buffer_length keeps
\* what was last written there)
buf_at(s, i) ==
    IF i < Len(s.scroll_buffer) THEN s.scroll_buffer[i + 1] ELSE SPACE

\* Return true if cursor is at end of line and printed text should wrap
\* should_wrap that lets a line grow one char past the width
should_wrap_late(s) ==
    IF s.line_indexes = <<>>
    THEN FALSE
    ELSE s.line_indexes[Len(s.line_indexes)].length > get_screen_width(s)

should_wrap(s) ==
    IF s.line_indexes = <<>>
    THEN FALSE
    ELSE s.line_indexes[Len(s.line_indexes)].length >= get_screen_width(s)

\* Return the TextLocation for the cursor (callers check for no lines,
\* where the source's expect panics)
get_cursor_location(s) ==
    [line_start |-> Len(s.line_indexes),
     line_width |-> get_screen_width(s),
     char_index |-> s.line_indexes[Len(s.line_indexes)].length]

\* Return the scroll window top value that matches the bottom of the text buffer
calculate_bottom_scroll_window(s) ==
    IF \/ s.lower_window.top_index # s.upper_window.bottom_index
       \/ ScreenWindow_height(s.lower_window) > Len(s.line_indexes)
    THEN 0
    ELSE Len(s.line_indexes) - ScreenWindow_height(s.lower_window)

(***************************************************************************)
(* Status bar                                                              *)
(***************************************************************************)
Spaces(n) == [i \in 1..n |-> SPACE]

Ellipsis == <<46, 46, 46, 32>>

\* draw_status_right that leaves the cursor behind the status bar
draw_status_right_leaving_cursor(s, right, width, left_edge, cursor_position) ==
    set_reverse(
        IF Len(right) < MAX_RIGHT_STATUS_WIDTH
        THEN addstr(addstr(s, Spaces(width - Len(right) - left_edge)), right)
        ELSE IF Len(right) < MAX_RIGHT_STATUS_WIDTH + 1
             THEN Panic(s)
             ELSE addstr(s, SubSeq(right, 1, MAX_RIGHT_STATUS_WIDTH + 1)),
        FALSE)

\* Update the status bar with the provided left and right halfs
\* Will preserve previous cursor location
\* the right half, and the cursor back where it was
draw_status_right(s, right, width, left_edge, cursor_position) ==
    mv(set_reverse(
           IF Len(right) < MAX_RIGHT_STATUS_WIDTH
           THEN addstr(addstr(s, Spaces(width - Len(right) - left_edge)), right)
           ELSE IF Len(right) < MAX_RIGHT_STATUS_WIDTH + 1
                THEN Panic(s)
                ELSE addstr(s, SubSeq(right, 1, MAX_RIGHT_STATUS_WIDTH + 1)),
           FALSE),
       cursor_position[1], cursor_position[2])

\* the left half.  &left[0..left_edge - 4]: the subtraction panics or wraps
\* to an end past the string, which panics too
draw_status_left(s, left, right, width, left_edge, cursor_position) ==
    draw_status_right(
        IF Len(left) < left_edge
        THEN addstr(addstr(s, left), Spaces(left_edge - Len(left)))
        ELSE IF left_edge < 4
             THEN Panic(s)
             ELSE addstr(addstr(s, SubSeq(left, 1, left_edge - 4)), Ellipsis),
        right, width, left_edge, cursor_position)

draw_status(s, left, right) ==
    IF s.panic THEN s
    \* left_edge = window_width - MAX_RIGHT_STATUS_WIDTH - 1: with overflow
    \* checks the subtraction panics; without, left_edge wraps and the
    \* padding loop runs off the end of the grid
    ELSE IF s.grid.width < MAX_RIGHT_STATUS_WIDTH + 1
    THEN Panic([s EXCEPT !.status = [status_left |-> left, status_right |-> right]])
    ELSE draw_status_left(
             mv(set_reverse([s EXCEPT !.status = [status_left |-> left,
                                                  status_right |-> right]],
                            TRUE),
                s.status_window.top_index, 0),
             left, right, s.grid.width,
             s.grid.width - MAX_RIGHT_STATUS_WIDTH - 1,
             get_cur_yx(s.grid))

clear(s) ==
    mv(draw_status(window_clear(s), <<>>, <<>>), STATUS_BAR_HEIGHT, 0)

(***************************************************************************)
(* Redraw                                                                  *)
(***************************************************************************)
MoreText == <<91, 77, 79, 82, 69, 93>>

RECURSIVE decimal(_)
decimal(n) == IF n < 10 THEN <<48 + n>> ELSE decimal(n \div 10) \o <<48 + (n % 10)>>

TooSmallText(s) ==
    <<87, 73, 78, 68, 79, 87, 32, 84, 79, 79, 32, 83, 77, 65, 76, 76, 46, 10,
      77, 73, 78, 73, 77, 85, 77, 32, 83, 73, 90, 69, 32>>
    \o decimal(MIN_WIDTH) \o <<120>> \o decimal(MIN_HEIGHT)
    \o <<10, 67, 85, 82, 82, 69, 78, 84, 32, 83, 73, 90, 69, 32>>
    \o decimal(get_screen_width(s)) \o <<120>> \o decimal(get_screen_height(s))

\* draw_line that draws every char of the line, a space in the first column
\* too
draw_line_with_leading_space(s, line_index) ==
    addstr(s, [k \in 1..line_index.length |-> buf_at(s, (k - 1) + line_index.start)])

\* Draw the line represented by the line index to scren
draw_line(s, line_index) ==
    LET \* If wrap mode is punctuation, don't print a space in the first column
        first == IF /\ s.wrap_style = "WrapOnPunctuation"
                    /\ buf_at(s, line_index.start) = SPACE
                 THEN 1 ELSE 0
    IN  addstr(s, [k \in 1..(line_index.length - first) |->
                      buf_at(s, (k - 1) + first + line_index.start)])

\* draw_line(self.line_indexes[i + self.scroll_window_top])
draw_indexed_line(s, i) ==
    IF s.panic THEN s
    ELSE IF s.overflow_checks /\ i + s.scroll_window_top >= USIZE_MODULUS
    THEN Panic(s)
    ELSE LET k == wrapping_add(i, s.scroll_window_top)
         IN  IF k >= Len(s.line_indexes)
             THEN Panic(s)
             ELSE draw_line(s, s.line_indexes[k + 1])

\* row i of the loop of redraw, the cursor at its start
redraw_row(s, i, max_line) ==
    IF i + 1 < max_line
    THEN draw_indexed_line(s, i)
    ELSE \* in the various "more" modes, last line is just the text [MORE]
         IF s.state \in {"WaitingForMore", "WaitingForMoreThenLine"}
         THEN addstr(s, MoreText)
         ELSE draw_indexed_line(s, i)

\* the loop of redraw from row i on
RECURSIVE redraw_rows(_, _, _)
redraw_rows(s, i, max_line) ==
    IF s.panic \/ i >= max_line THEN s
    ELSE IF s.overflow_checks /\ i + s.lower_window.top_index >= USIZE_MODULUS
    THEN Panic(s)
    ELSE redraw_rows(
             redraw_row(clrtoeol(mv(s, wrapping_add(i, s.lower_window.top_index), 0)),
                        i, max_line),
             i + 1, max_line)

\* Redraw the screen (other than the status bar)
redraw(s) ==
    IF s.panic THEN s
    ELSE IF ~is_size_valid(s)
    THEN addstr(mv(clear(s), 0, 0), TooSmallText(s))
    ELSE IF s.redraw_enabled
    THEN redraw_rows(s, 0, Min(ScreenWindow_height(s.lower_window),
                               Len(s.line_indexes)))
    ELSE s

(***************************************************************************)
(* Scroll buffer and line indexes                                          *)
(***************************************************************************)
SCROLL_BUFFER_INITIAL_SIZE == 20000

\* Add a char to the scroll buffer.  With MaxBufLen well below
\* SCROLL_BUFFER_INITIAL_SIZE the Vec never has to grow; an index at or past
\* its length (a wrapped scroll_buffer_length) panics.
push_scroll_buffer(s, c) ==
    IF s.panic THEN s
    ELSE LET n == s.scroll_buffer_length IN
         IF n >= SCROLL_BUFFER_INITIAL_SIZE
         THEN Panic(s)
         ELSE [s EXCEPT !.scroll_buffer =
                            [j \in 1..Max(Len(s.scroll_buffer), n + 1) |->
                                IF j = n + 1 THEN c
                                ELSE IF j <= Len(s.scroll_buffer)
                                     THEN s.scroll_buffer[j]
                                     ELSE SPACE],
                        !.scroll_buffer_length = n + 1]

\* Remove the last char from the scroll buffer and return it (the callers
\* drop the char)
pop_scroll_buffer(s) ==
    IF s.panic THEN s
    ELSE IF s.scroll_buffer_length >= SCROLL_BUFFER_INITIAL_SIZE
    THEN Panic(s)
    ELSE IF s.scroll_buffer_length > 0
    THEN [s EXCEPT !.scroll_buffer_length = @ - 1]
    ELSE s

\* the line indexes of screen s after a line is added at the bottom
pushed_lines(s, length_offset, start_offset) ==
    LET n == Len(s.line_indexes)
        last_index == s.line_indexes[n]
        new_length == last_index.length - length_offset
    IN  Append([s.line_indexes EXCEPT ![n].length = Min(new_length, get_screen_width(s))],
               [start |-> last_index.start + new_length + start_offset,
                length |-> length_offset])

\* push_line that adds the line and leaves the scroll window alone
push_line_leaving_window(s, scroll, length_offset, start_offset) ==
    IF s.panic THEN s
    ELSE IF s.line_indexes = <<>> THEN Panic(s)
    ELSE [s EXCEPT !.line_indexes = pushed_lines(s, length_offset, start_offset)]

\* push_line that updates the scroll window whether or not it is asked to
push_line_always_scrolling(s, scroll, length_offset, start_offset) ==
    IF s.panic THEN s
    ELSE IF s.line_indexes = <<>> THEN Panic(s)
    ELSE IF Len(s.line_indexes) + 1 < ScreenWindow_height(s.lower_window)
    THEN [s EXCEPT !.line_indexes = pushed_lines(s, length_offset, start_offset)]
    ELSE IF s.lower_window.top_index # s.upper_window.bottom_index
    THEN [s EXCEPT !.line_indexes = pushed_lines(s, length_offset, start_offset),
                   !.lower_window.top_index = wrapping_sub(@, 1)]
    ELSE [s EXCEPT !.line_indexes = pushed_lines(s, length_offset, start_offset),
                   !.scroll_window_top = wrapping_add(@, 1)]

\* Add a new line to the bottom of the screen and update the scroll window
push_line(s, scroll, length_offset, start_offset) ==
    IF s.panic THEN s
    ELSE IF s.line_indexes = <<>> THEN Panic(s)
    ELSE
    LET n == Len(s.line_indexes)
        last_index == s.line_indexes[n]
        screen_width == get_screen_width(s)
        new_length == last_index.length - length_offset
        new_start == last_index.start + new_length + start_offset
        lines == Append(
            \* Lines can go off screen if wrap is off -- but rendered lines
            \* should ignore the extra text
            [s.line_indexes EXCEPT ![n].length = Min(new_length, screen_width)],
            [start |-> new_start, length |-> length_offset])
        s1 == [s EXCEPT !.line_indexes = lines]
    IN  IF scroll /\ Len(lines) >= ScreenWindow_height(s1.lower_window)
        THEN IF s1.lower_window.top_index # s1.upper_window.bottom_index
             THEN \* Cursor will start at bottom left, so initial scrolling should
                  \* move the top of the main window up until it hits the top window
                  IF s1.overflow_checks /\ s1.lower_window.top_index < 1
                  THEN Panic(s1)
                  ELSE [s1 EXCEPT !.lower_window.top_index = wrapping_sub(@, 1)]
             ELSE IF s1.overflow_checks /\ s1.scroll_window_top + 1 >= USIZE_MODULUS
                  THEN Panic(s1)
                  ELSE [s1 EXCEPT !.scroll_window_top = wrapping_add(@, 1)]
        ELSE s1

\* Remove the last line of text from the screen and update the scroll window
pop_line(s) ==
    IF s.panic THEN s
    ELSE IF s.line_indexes # <<>>
    THEN LET s1 == [s EXCEPT !.line_indexes =
                                 SubSeq(s.line_indexes, 1, Len(s.line_indexes) - 1)]
         IN  IF s1.lower_window.top_index # s1.upper_window.bottom_index
             THEN IF s1.overflow_checks /\ s1.lower_window.top_index + 1 >= USIZE_MODULUS
                  THEN Panic(s1)
                  ELSE [s1 EXCEPT !.lower_window.top_index = wrapping_add(@, 1)]
             ELSE IF s1.overflow_checks /\ s1.scroll_window_top < 1
                  THEN Panic(s1)
                  ELSE [s1 EXCEPT !.scroll_window_top = wrapping_sub(@, 1)]
    ELSE s

\* Scroll to the bottom of the window (always the bottom window, top does not scroll)
scroll_to_bottom(s) ==
    IF s.panic THEN s
    ELSE IF /\ s.lower_window.top_index = s.upper_window.bottom_index
            /\ ScreenWindow_height(s.lower_window) < Len(s.line_indexes)
    THEN [s EXCEPT !.scroll_window_top =
             Len(s.line_indexes) - ScreenWindow_height(s.lower_window)]
    ELSE s

\* If a whole page of text has been printed since last input, and more is
\* active, wait for more prompt
switch_to_more_state_if_needed(s) ==
    IF s.panic \/ ~s.use_more THEN s
    ELSE
    LET len == Len(s.line_indexes)
        line_start == s.input_start_location.line_start
        height == ScreenWindow_height(s.lower_window)
    IN  IF s.overflow_checks /\ len < line_start
        THEN Panic(s)
        ELSE IF wrapping_sub(len, line_start) > height /\ s.state = "Output"
        THEN \* Whenever waiting for more, always reset the scroll window based
             \* on the bottom.  the -2 accounts for the line that was just
             \* output and the [MORE] line itself
             IF s.overflow_checks /\ len < height + 2
             THEN Panic(s)
             ELSE [s EXCEPT !.state = "WaitingForMore",
                            !.scroll_window_top =
                                Max(0, wrapping_sub(wrapping_sub(len, height), 2))]
        ELSE s

\* "if c != '\n'": the char counts on the last line
count_char(s, c) ==
    IF s.panic \/ c = NL THEN s
    ELSE IF s.line_indexes = <<>> THEN Panic(s)
    ELSE [s EXCEPT !.line_indexes[Len(s.line_indexes)].length = @ + 1]

\* update_line_indexes_for_char that carries nothing to the new line
update_line_indexes_cutting_at_width(s, c) ==
    IF s.panic THEN s
    ELSE count_char(
             IF c = NL \/ should_wrap(s)
             THEN switch_to_more_state_if_needed(
                      push_line(s, s.state \in {"Output", "WaitingForLine"},
                                0, IF c = NL THEN 1 ELSE 0))
             ELSE s,
             c)

\* update_line_indexes_for_char that carries the last char of the line to
\* the new line when the line holds no wrap char
update_line_indexes_carrying_last_char(s, c) ==
    IF s.panic THEN s
    ELSE
    LET last_line_break == s.line_indexes[Len(s.line_indexes)]
        breaks == {i \in 0..(last_line_break.length - 1) :
                      is_wrap_char(buf_at(s, i + last_line_break.start))}
        length_offset ==
            IF c # NL /\ should_wrap(s) /\ s.wrap_style = "WrapOnPunctuation" /\ c # SPACE
            THEN IF breaks # {}
                 THEN last_line_break.length - SetMax(breaks) - 1
                 ELSE 1
            ELSE 0
    IN  count_char(
            IF c = NL \/ should_wrap(s)
            THEN switch_to_more_state_if_needed(
                     push_line(s, s.state \in {"Output", "WaitingForLine"},
                               length_offset, IF c = NL THEN 1 ELSE 0))
            ELSE s,
            c)

update_line_indexes_for_char(s, c) ==
    IF s.panic THEN s
    ELSE
    LET is_newline == c = NL
        wrap == ~is_newline /\ should_wrap(s)
        last_line_break == s.line_indexes[Len(s.line_indexes)]
        \* the positions i of the last line that hold a wrap char; the
        \* source's reversed loop stops at the largest
        breaks == {i \in 0..(last_line_break.length - 1) :
                      is_wrap_char(buf_at(s, i + last_line_break.start))}
        length_offset ==
            IF /\ wrap
               /\ s.wrap_style = "WrapOnPunctuation"
               /\ c # SPACE
               /\ breaks # {}
            THEN last_line_break.length - SetMax(breaks) - 1
            ELSE 0
        \* Offset of 1 to skip the newline
        start_offset == IF is_newline THEN 1 ELSE 0
    IN  count_char(
            IF is_newline \/ wrap
            THEN switch_to_more_state_if_needed(
                     push_line(s, s.state \in {"Output", "WaitingForLine"},
                               length_offset, start_offset))
            ELSE s,
            c)

\* the chars of print_to_lower's loop
RECURSIVE print_chars_to_lower(_, _)
print_chars_to_lower(s, str) ==
    IF s.panic \/ str = <<>> THEN s
    ELSE LET c == Head(str)
             stored == IF c = NL THEN c
                       ELSE IF c < MIN_CHAR \/ c > MAX_CHAR THEN QUESTION
                       ELSE c
         IN  print_chars_to_lower(
                 push_scroll_buffer(update_line_indexes_for_char(s, c), stored),
                 Tail(str))

\* "if self.state == ScreenState::Output || ... WaitingForMore": the redraw
\* that ends print_to_lower
redraw_if_printing(s) ==
    IF s.panic THEN s
    ELSE IF s.state \in {"Output", "WaitingForMore"} THEN redraw(s)
    ELSE s

\* Print to the end of the lower window. Will scroll to bottom if needed.
print_to_lower(s, str) == redraw_if_printing(print_chars_to_lower(s, str))

\* "self.upper_cursor.char_index += 1" after a char went to the upper window
advance_upper_cursor(s) ==
    IF s.panic THEN s ELSE [s EXCEPT !.upper_cursor.char_index = @ + 1]

\* Print at the cursor location in the upper window. No scrolling or wrapping
RECURSIVE print_chars_to_upper(_, _)
print_chars_to_upper(s, str) ==
    IF s.panic \/ str = <<>> THEN s
    ELSE LET c == Head(str) IN
         IF c = NL
         THEN \* No wrapping or scrolling, so check bounds
              IF s.upper_cursor.line_start < s.upper_window.bottom_index
              THEN print_chars_to_upper(
                       [s EXCEPT !.upper_cursor.line_start = @ + 1,
                                 !.upper_cursor.char_index = 0],
                       Tail(str))
              ELSE s
         ELSE \* Always check the index bounds
              IF s.upper_cursor.char_index < s.upper_cursor.line_width
              THEN print_chars_to_upper(
                       advance_upper_cursor(
                           addch(mv(s, s.upper_cursor.line_start,
                                    s.upper_cursor.char_index), c)),
                       Tail(str))
              ELSE print_chars_to_upper(s, Tail(str))

print_to_upper(s, str) ==
    IF s.panic THEN s
    ELSE IF /\ ScreenWindow_height(s.upper_window) > 0
            /\ s.upper_cursor.line_start >= s.upper_window.top_index
            /\ s.upper_cursor.line_start <= s.upper_window.bottom_index
    THEN print_chars_to_upper(s, str)
    ELSE s

\* Print the provided text at the current cursor location in the selected window
print(s, str) ==
    IF s.selected_window = "Lower"
    THEN print_to_lower(s, str)
    ELSE print_to_upper(s, str)

print_char(s, c) == print(s, <<c>>)

\* "last_line_index.length -= 1" after the pop of the scroll buffer
shorten_last_line(s) ==
    IF s.panic THEN s
    ELSE [s EXCEPT !.line_indexes[Len(s.line_indexes)].length = @ - 1]

\* "self.scroll_buffer_length -= 1" after the pop of the empty line
shorten_scroll_buffer(s) ==
    IF s.panic THEN s
    ELSE IF s.overflow_checks /\ s.scroll_buffer_length < 1
    THEN Panic(s)
    ELSE [s EXCEPT !.scroll_buffer_length = wrapping_sub(@, 1)]

\* the loop of erase_chars
RECURSIVE erase_chars_loop(_, _)
erase_chars_loop(s, char_count) ==
    IF s.panic \/ char_count = 0 THEN s
    ELSE IF s.line_indexes = <<>> THEN Panic(s)
    ELSE erase_chars_loop(
             IF s.line_indexes[Len(s.line_indexes)].length > 0
             THEN \* Line has characters, remove latest
                  shorten_last_line(pop_scroll_buffer(s))
             ELSE \* Line has no characters, remove entire line
                  shorten_scroll_buffer(pop_line(s)),
             char_count - 1)

\* erase_chars as it would be if it erased one char more than asked
erase_chars_one_more(s, char_count) ==
    redraw(erase_chars_loop(s, char_count + 1))

\* Erase char_count chars, working backwards from cursor
erase_chars(s, char_count) == redraw(erase_chars_loop(s, char_count))

(***************************************************************************)
(* Windows, resize                                                         *)
(***************************************************************************)
\* Clear the text from the specified window
RECURSIVE clear_window(_, _, _)
clear_window(s, top_index, bottom_index) ==
    IF s.panic \/ top_index >= bottom_index THEN s
    ELSE clear_window(clrtoeol(mv(s, top_index, 0)), top_index + 1, bottom_index)

\* Spec has text start at bottom and scroll up. To handle scrolling
\* correctly, this means the top index of the main window actually
\* moves up until it hits the bottom of the top window
start_at_bottom(s) ==
    IF s.panic THEN s
    ELSE IF s.overflow_checks /\ s.lower_window.bottom_index < 1
    THEN Panic(s)
    ELSE [s EXCEPT !.lower_window.top_index =
                       wrapping_sub(s.lower_window.bottom_index, 1)]

clear_to_bottom(s) == start_at_bottom(draw_status(clear(s), <<>>, <<>>))

\* Set whether or not MORE should be used. Default is no.
set_use_more(s, b) == [s EXCEPT !.use_more = b]

\* recalculate indexes here: the loop over the scroll buffer from char i on
RECURSIVE replay_scroll_buffer(_, _)
replay_scroll_buffer(s, i) ==
    IF s.panic \/ i >= s.scroll_buffer_length THEN s
    ELSE replay_scroll_buffer(update_line_indexes_for_char(s, buf_at(s, i)), i + 1)

\* the rebuild as it would be if it cleared nothing and pushed the first
\* line only when there is none: the replay adds to the lines of the old width
recalculate_line_indexes_appending(s) ==
    IF s.panic THEN s
    ELSE LET s4 == [set_use_more(s, FALSE) EXCEPT
                      !.state = "Output",
                      !.line_indexes = IF @ = <<>>
                                       THEN <<[start |-> 0, length |-> 0]>>
                                       ELSE @]
         IN  IF s4.scroll_buffer_length > SCROLL_BUFFER_INITIAL_SIZE
             THEN Panic(s4)
             ELSE replay_scroll_buffer(s4, 0)

\* "Clear existing lines -- there must always be one line index" and
\* "recalculate indexes here": with paging off and the state Output, the
\* line indexes are rebuilt from the whole scroll buffer.
recalculate_line_indexes(s) ==
    IF s.panic THEN s
    ELSE LET s4 == [set_use_more(s, FALSE) EXCEPT
                      !.state = "Output",
                      !.line_indexes = <<[start |-> 0, length |-> 0]>>]
         IN  \* a scroll_buffer_length past the Vec (a wrapped one) reads out of bounds
             IF s4.scroll_buffer_length > SCROLL_BUFFER_INITIAL_SIZE
             THEN Panic(s4)
             ELSE replay_scroll_buffer(s4, 0)

\* "Setup other params"
reset_input_start(s) ==
    IF s.panic THEN s
    ELSE IF s.line_indexes = <<>> THEN Panic(s)
    ELSE [s EXCEPT !.input_start_location = get_cursor_location(s)]

\* the restore as it would be if it left the state as the rebuild set it
restore_state_leaving_output(s, use_more_preserved, state_preserved, old_left, old_right) ==
    IF s.panic THEN s
    ELSE reset_input_start(
             draw_status(set_use_more(s, use_more_preserved), old_left, old_right))

\* "Restore state": the paging flag, the state and the status bar
restore_state(s, use_more_preserved, state_preserved, old_left, old_right) ==
    IF s.panic THEN s
    ELSE reset_input_start(
             draw_status([set_use_more(s, use_more_preserved)
                             EXCEPT !.state = state_preserved],
                         old_left, old_right))

\* the screen is cleared: scroll to the bottom, "Preserve state", rebuild
\* the line indexes and restore
recalculate(s, old_status_left, old_status_right) ==
    IF s.panic THEN s
    ELSE restore_state(
             recalculate_line_indexes(
                 [s EXCEPT !.scroll_window_top = calculate_bottom_scroll_window(s)]),
             s.use_more, s.state, old_status_left, old_status_right)

\* Call after screen size changes to recalculate windows, or with force to
\* force a redraw and buffers.
recalculate_and_redraw(s, force) ==
    IF s.panic THEN s
    \* Only recalculate if size changed
    ELSE IF \/ s.window_width # s.grid.width
            \/ s.window_height # s.grid.height
            \/ force
    THEN
    LET old_height == ScreenWindow_height(s.upper_window)
    IN  recalculate(
            \* Spec 8.5.2, 8.6.2
            clear_to_bottom(
                [s EXCEPT
                   !.window_width = s.grid.width,
                   !.window_height = s.grid.height,
                   \* Manually set status window in case it changed. It is always at top
                   !.status_window = [top_index |-> 0, bottom_index |-> STATUS_BAR_HEIGHT],
                   \* Top window will be right below status
                   !.upper_window = [top_index |-> STATUS_BAR_HEIGHT,
                                     bottom_index |-> STATUS_BAR_HEIGHT + old_height],
                   \* The bottom window should extend from bottom of the top
                   \* window to the bottom of the screen
                   !.lower_window = [top_index |-> STATUS_BAR_HEIGHT + old_height,
                                     bottom_index |-> s.grid.height]]),
            s.status.status_left, s.status.status_right)
    ELSE s

\* resize as it would be if it started the text over, as clear() does
resize_dropping_text(s, width, height) ==
    IF s.panic THEN s
    ELSE recalculate_and_redraw(
             [s EXCEPT !.grid = CharGrid_create(width, height),
                       !.scroll_buffer_length = 0], TRUE)

resize(s, width, height) ==
    IF s.panic THEN s
    ELSE recalculate_and_redraw(
             [s EXCEPT !.grid = CharGrid_create(width, height)], TRUE)

\* Initialize the screen
create ==
    [grid |-> CharGrid_create(GRID_WIDTH, GRID_HEIGHT),
     line_indexes |-> <<>>,
     scroll_buffer |-> <<>>,
     scroll_buffer_length |-> 0,
     window_width |-> 0,
     window_height |-> 0,
     validate_size |-> TRUE,
     status |-> [status_left |-> <<>>, status_right |-> <<>>],
     state |-> "Output",
     last_input_buffer |-> <<>>,
     max_input_length |-> 0,
     use_more |-> FALSE,
     scroll_window_top |-> 0,
     wrap_style |-> "WrapOnPunctuation",
     input_start_location |-> TextLocation_empty,
     status_window |-> [top_index |-> 0, bottom_index |-> STATUS_BAR_HEIGHT],
     upper_window |-> [top_index |-> STATUS_BAR_HEIGHT, bottom_index |-> STATUS_BAR_HEIGHT],
     lower_window |-> [top_index |-> STATUS_BAR_HEIGHT, bottom_index |-> 0],
     selected_window |-> "Lower",
     upper_cursor |-> TextLocation_empty,
     redraw_enabled |-> TRUE,
     panic |-> FALSE,
     overflow_checks |-> TRUE,
     ret |-> FALSE]

\* (the version is stored and never read; the scroll buffer's pre-allocation
\* is what buf_at reads)
initialize(s) == recalculate_and_redraw(s, TRUE)

\* If lower window is selected, split off an upper window of N lines
\* resizing if it already exists
\* split_window with the lower window selected
split_lower(s, lines) ==
    LET s1 ==
          IF lines = 0
          THEN \* 0 lines means collapse upper window
               LET new_bottom == STATUS_BAR_HEIGHT IN
               [s EXCEPT
                  !.upper_window = [top_index |-> STATUS_BAR_HEIGHT,
                                    bottom_index |-> STATUS_BAR_HEIGHT],
                  !.lower_window.top_index =
                      IF s.upper_window.bottom_index = s.lower_window.top_index
                      THEN new_bottom ELSE @]
          ELSE \* Verify the screen will be a reasonable size
               IF s.overflow_checks /\ get_screen_height(s) < STATUS_BAR_HEIGHT + 1
               THEN Panic(s)
               ELSE
               LET tmplines == Min(lines,
                                   wrapping_sub(get_screen_height(s),
                                                STATUS_BAR_HEIGHT + 1))
                   new_bottom == s.upper_window.top_index + tmplines
                   \* Only move the lower window's top boundary if it's
                   \* already attached to the top window.  In the initial
                   \* scrolling phase, it might not be
                   s2 == [s EXCEPT
                            !.lower_window.top_index =
                                IF s.upper_window.bottom_index = s.lower_window.top_index
                                THEN new_bottom ELSE @,
                            !.upper_window.bottom_index = new_bottom]
               IN  clear_window(s2, s2.upper_window.top_index,
                                s2.upper_window.bottom_index)
    IN  redraw(scroll_to_bottom(s1))

\* split_window whatever window is selected
split_window_in_any_window(s, lines) ==
    IF s.panic THEN s
    ELSE split_lower(s, lines)

\* the lower window's top follows the upper window's bottom
attach_lower(s) ==
    IF s.panic THEN s
    ELSE [s EXCEPT !.lower_window.top_index = s.upper_window.bottom_index]

\* split_window as it would be if the lower window always followed
split_window_attaching(s, lines) ==
    IF s.panic THEN s
    ELSE IF s.selected_window = "Lower"
    THEN attach_lower(split_lower(s, lines))
    ELSE s

\* If lower window is selected, split off an upper window of N lines
\* resizing if it already exists
split_window(s, lines) ==
    IF s.panic THEN s
    ELSE IF s.selected_window = "Lower"
    THEN split_lower(s, lines)
    ELSE s

\* Select a window.
set_window(s, window) ==
    IF s.panic THEN s
    ELSE IF window = "Upper"
    THEN [s EXCEPT !.selected_window = window,
                   !.upper_cursor = [line_start |-> s.upper_window.top_index,
                                     char_index |-> 0,
                                     line_width |-> get_screen_width(s)]]
    ELSE [s EXCEPT !.selected_window = window]

(***************************************************************************)
(* Scrolling and input                                                     *)
(***************************************************************************)
\* Scroll up a page of text
scroll_page_up(s) ==
    IF s.panic THEN s
    ELSE LET height == get_screen_height(s) IN
         redraw([s EXCEPT !.scroll_window_top =
                     IF @ >= height THEN @ - height ELSE 0])

\* scroll_page_down as it would be without the clamp to the bottom of the
\* buffer
scroll_page_down_unclamped(s) ==
    IF s.panic THEN s
    ELSE LET height == get_screen_height(s) IN
         IF s.overflow_checks /\ s.scroll_window_top + height >= USIZE_MODULUS
         THEN Panic(s)
         ELSE redraw([s EXCEPT !.scroll_window_top = wrapping_add(@, height)])

\* Scroll down a page of text
scroll_page_down(s) ==
    IF s.panic THEN s
    ELSE LET height == get_screen_height(s) IN
         IF s.overflow_checks /\ s.scroll_window_top + height >= USIZE_MODULUS
         THEN Panic(s)
         ELSE redraw([s EXCEPT !.scroll_window_top =
                         Min(wrapping_add(@, height),
                             calculate_bottom_scroll_window(s))])

\* "Only switch states if scrolled all the way to bottom", and the redraw
switch_at_bottom(s, next_state) ==
    IF s.panic THEN s
    ELSE redraw(
           IF s.scroll_window_top = calculate_bottom_scroll_window(s)
           THEN [s EXCEPT !.state = next_state]
           ELSE s)

\* the WaitingForMore and WaitingForMoreThenLine arms of process_input
page_down_then(s, next_state) == switch_at_bottom(scroll_page_down(s), next_state)

\* "return true"
return_true(s) == IF s.panic THEN s ELSE [s EXCEPT !.ret = TRUE]

\* Pass in the results of getchar.  The field ret is what the call returns.
process_input(s, c) ==
    IF s.panic THEN s
    ELSE
    LET s0 == [s EXCEPT !.ret = FALSE] IN
    CASE s.state = "WaitingForMore" -> page_down_then(s0, "Output")
      [] s.state = "WaitingForMoreThenLine" -> page_down_then(s0, "WaitingForLine")
      [] s.state = "WaitingForLine" ->
           \* On char entry, always scroll to bottom
           LET s1 == [s0 EXCEPT !.scroll_window_top =
                                    calculate_bottom_scroll_window(s0)]
           IN
           IF c = NL
           THEN return_true(print_char([s1 EXCEPT !.state = "Output"], c))
           ELSE IF c = BACKSPACE
           THEN IF s1.last_input_buffer = <<>>
                THEN s1
                ELSE IF s1.line_indexes = <<>>
                THEN Panic(s1)
                ELSE IF calculate_absolute_location(get_cursor_location(s1))
                          > calculate_absolute_location(s1.input_start_location)
                THEN erase_chars(
                         [s1 EXCEPT !.last_input_buffer =
                                        SubSeq(@, 1, Len(@) - 1)], 1)
                ELSE s1
           ELSE IF s1.line_indexes = <<>>
           THEN Panic(s1)
           ELSE
           LET cursor == calculate_absolute_location(get_cursor_location(s1))
               start == calculate_absolute_location(s1.input_start_location)
           IN  IF s1.overflow_checks /\ cursor < start
               THEN Panic(s1)
               \* Stop collecting characters if at max requested length
               ELSE IF wrapping_sub(cursor, start) < s1.max_input_length
               THEN \* Won't automatically redraw screen if in input mode
                    redraw(print_char(
                        [s1 EXCEPT !.last_input_buffer = Append(@, c)], c))
               ELSE s1
      [] OTHER -> s0

stop_waiting_for_input(s) ==
    IF s.panic THEN s ELSE [s EXCEPT !.state = "Output"]

\* wait_for_line as it would be if a call during a line wait did nothing
wait_for_line_once(s, max_input_length_arg) ==
    IF s.panic THEN s
    ELSE IF s.line_indexes = <<>> THEN Panic(s)
    ELSE IF s.state \in {"WaitingForLine", "WaitingForMoreThenLine"} THEN s
    ELSE [s EXCEPT
            !.max_input_length = max_input_length_arg,
            !.last_input_buffer = <<>>,
            !.input_start_location = get_cursor_location(s),
            !.state = IF s.state = "WaitingForMore"
                      THEN "WaitingForMoreThenLine"
                      ELSE "WaitingForLine"]

\* wait_for_line without the arm of WaitingForMore
wait_for_line_dropping_more(s, max_input_length_arg) ==
    IF s.panic THEN s
    ELSE IF s.line_indexes = <<>> THEN Panic(s)
    ELSE [s EXCEPT
            !.max_input_length = max_input_length_arg,
            !.last_input_buffer = <<>>,
            !.input_start_location = get_cursor_location(s),
            !.state = "WaitingForLine"]

\* Wait for a whole line
wait_for_line(s, max_input_length_arg) ==
    IF s.panic THEN s
    ELSE IF s.line_indexes = <<>> THEN Panic(s)
    ELSE [s EXCEPT
            !.max_input_length = max_input_length_arg,
            !.last_input_buffer = <<>>,
            !.input_start_location = get_cursor_location(s),
            !.state = IF s.state = "WaitingForMore"
                      THEN "WaitingForMoreThenLine"
                      ELSE "WaitingForLine"]

(***************************************************************************)
(* The state machine                                                       *)
(***************************************************************************)
\* the screen the variables hold
Self ==
    [grid |-> grid,
     state |-> state,
     use_more |-> use_more,
     redraw_enabled |-> redraw_enabled,
     wrap_style |-> wrap_style,
     validate_size |-> validate_size,
     line_indexes |-> line_indexes,
     scroll_buffer |-> scroll_buffer,
     scroll_buffer_length |-> scroll_buffer_length,
     window_width |-> window_width,
     window_height |-> window_height,
     scroll_window_top |-> scroll_window_top,
     last_input_buffer |-> last_input_buffer,
     max_input_length |-> max_input_length,
     input_start_location |-> input_start_location,
     status_window |-> status_window,
     upper_window |-> upper_window,
     lower_window |-> lower_window,
     selected_window |-> selected_window,
     upper_cursor |-> upper_cursor,
     status |-> status,
     panic |-> FALSE,
     overflow_checks |-> overflow_checks,
     ret |-> FALSE]

screen_vars == <<grid, state, use_more, redraw_enabled, wrap_style, validate_size,
                 line_indexes, scroll_buffer, scroll_buffer_length, window_width,
                 window_height, scroll_window_top, last_input_buffer,
                 max_input_length, input_start_location, status_window,
                 upper_window, lower_window, selected_window, upper_cursor, status>>

\* the variables hold screen t
ScreenIs(t) ==
    /\ grid = t.grid
    /\ state = t.state
    /\ use_more = t.use_more
    /\ redraw_enabled = t.redraw_enabled
    /\ wrap_style = t.wrap_style
    /\ validate_size = t.validate_size
    /\ line_indexes = t.line_indexes
    /\ scroll_buffer = t.scroll_buffer
    /\ scroll_buffer_length = t.scroll_buffer_length
    /\ window_width = t.window_width
    /\ window_height = t.window_height
    /\ scroll_window_top = t.scroll_window_top
    /\ last_input_buffer = t.last_input_buffer
    /\ max_input_length = t.max_input_length
    /\ input_start_location = t.input_start_location
    /\ status_window = t.status_window
    /\ upper_window = t.upper_window
    /\ lower_window = t.lower_window
    /\ selected_window = t.selected_window
    /\ upper_cursor = t.upper_cursor
    /\ status = t.status

\* the rows of the lower window of screen s that show transcript lines: in
\* the "more" modes the last row shows [MORE] (redraw)
transcript_rows(s) ==
    LET max_line == Min(ScreenWindow_height(s.lower_window), Len(s.line_indexes))
    IN  IF s.state \in {"WaitingForMore", "WaitingForMoreThenLine"}
        THEN Max(max_line - 1, 0)
        ELSE max_line

\* the numbers of the lines a redraw of screen s shows
lines_shown(s) == {s.scroll_window_top + i : i \in 1..transcript_rows(s)}

\* The call named op took the screen to t.  A call that panicked ends the
\* process: nothing of its partial work can be observed, so the variables
\* keep the values they had.
Returned(t, op, arg) ==
    /\ last_call' = [op |-> op, arg |-> arg, ret |-> t.ret, from |-> state]
    /\ UNCHANGED <<overflow_checks, runs>>
    /\ IF t.panic
       THEN /\ panicked' = TRUE
            /\ UNCHANGED screen_vars
       ELSE /\ panicked' = FALSE
            /\ grid' = t.grid
            /\ state' = t.state
            /\ use_more' = t.use_more
            /\ redraw_enabled' = t.redraw_enabled
            /\ wrap_style' = t.wrap_style
            /\ validate_size' = t.validate_size
            /\ line_indexes' = t.line_indexes
            /\ scroll_buffer' = t.scroll_buffer
            /\ scroll_buffer_length' = t.scroll_buffer_length
            /\ window_width' = t.window_width
            /\ window_height' = t.window_height
            /\ scroll_window_top' = t.scroll_window_top
            /\ last_input_buffer' = t.last_input_buffer
            /\ max_input_length' = t.max_input_length
            /\ input_start_location' = t.input_start_location
            /\ status_window' = t.status_window
            /\ upper_window' = t.upper_window
            /\ lower_window' = t.lower_window
            /\ selected_window' = t.selected_window
            /\ upper_cursor' = t.upper_cursor
            /\ status' = t.status

\* print(s) from the interpreter
PrintText(str) ==
    /\ ~panicked
    /\ scroll_buffer_length + Len(str) <= MaxBufLen
    /\ Returned(print(Self, str), "print", 0)

\* resize(width, height) from the GUI
Resize(width, height) ==
    /\ ~panicked
    /\ Returned(resize(Self, width, height), "resize", width)

\* process_input(c) from the GUI: a key event
Key(c) ==
    /\ ~panicked
    /\ state = "WaitingForLine" => scroll_buffer_length + 1 <= MaxBufLen
    /\ Returned(process_input(Self, c), "process_input", c)

\* wait_for_line(max_input_length) from the interpreter or the application
WaitForLine(max) ==
    /\ ~panicked
    /\ Returned(wait_for_line(Self, max), "wait_for_line", 0)

\* stop_waiting_for_input() from the application
StopWaitingForInput ==
    /\ ~panicked
    /\ Returned(stop_waiting_for_input(Self), "stop_waiting_for_input", 0)

\* scroll_page_up() and scroll_page_down() from the GUI
ScrollPageUp ==
    /\ ~panicked
    /\ Returned(scroll_page_up(Self), "scroll_page_up", 0)

ScrollPageDown ==
    /\ ~panicked
    /\ Returned(scroll_page_down(Self), "scroll_page_down", 0)

\* split_window(lines) and set_window(window) from the interpreter
Split(lines) ==
    /\ ~panicked
    /\ Returned(split_window(Self, lines), "split_window", lines)

SetWindow(window) ==
    /\ ~panicked
    /\ Returned(set_window(Self, window), "set_window", 0)

\* draw_status(left, right) from the interpreter
DrawStatus(left, right) ==
    /\ ~panicked
    /\ Returned(draw_status(Self, left, right), "draw_status", Len(right))

\* redraw() from the application
Redraw ==
    /\ ~panicked
    /\ Returned(redraw(Self), "redraw", 0)

\* grid.grid_to_runs(show_cursor) from the GUI's draw_screen
GridToRuns(show_cursor) ==
    /\ ~panicked
    /\ grid' = grid_to_runs(grid, show_cursor).self
    /\ runs' = grid_to_runs(grid, show_cursor).v
    /\ last_call' = [op |-> "grid_to_runs", arg |-> IF show_cursor THEN 1 ELSE 0,
                     ret |-> FALSE, from |-> state]
    /\ UNCHANGED <<state, use_more, redraw_enabled, wrap_style, validate_size,
                   line_indexes, scroll_buffer, scroll_buffer_length, window_width,
                   window_height, scroll_window_top, last_input_buffer,
                   max_input_length, input_start_location, status_window,
                   upper_window, lower_window, selected_window, upper_cursor, status,
                   panicked, overflow_checks>>

\* The history variables.  They are no part of the screen: a specification
\* records the history its properties read and leaves the rest as it is.
resize_history == <<base_width, base_index, resized_away>>
paging_history == <<request_lines, shown, quiet>>
input_history == <<request_length>>

\* text has been printed to the lower window at the width it now has
RecordPrint ==
    /\ base_width' = window_width'
    /\ base_index' = line_indexes'
    /\ resized_away' = FALSE

\* the window has been resized
RecordResize ==
    /\ resized_away' = (resized_away \/ window_width' # base_width)
    /\ UNCHANGED <<base_width, base_index>>

\* the lower window shows the lines of the screen the call has left
LinesShown == lines_shown(Self)
RecordShown == shown' = shown \cup LinesShown'

\* The state after construction: create() and initialize() (Eguiio::create),
\* the settings the application or a test assigns to the public fields, and
\* the first resize (the GUI's first update_font_metrics, a test's resize).
InitWith(t) ==
    /\ ~t.panic
    /\ ScreenIs(t)
    /\ panicked = FALSE
    /\ overflow_checks = t.overflow_checks
    /\ last_call = [op |-> "resize", arg |-> 0, ret |-> FALSE, from |-> "Output"]
    /\ base_width = t.window_width
    /\ base_index = t.line_indexes
    /\ resized_away = FALSE
    /\ request_lines = Len(t.line_indexes)
    /\ request_length = 0
    /\ quiet = FALSE
    /\ shown = lines_shown(t)
    /\ runs = <<>>

Configured(width, height, wrap, more, validate, checks) ==
    resize([initialize([create EXCEPT !.overflow_checks = checks]) EXCEPT
               !.wrap_style = wrap,
               !.use_more = more,
               !.validate_size = validate],
           width, height)

(***************************************************************************)
(* Inputs                                                                  *)
(***************************************************************************)
Letters(n) == [i \in 1..n |-> 96 + i]

\* a string one short of a narrow line, without and with a break char
Prompt == Letters(NarrowWidth - 1)
PromptWithBreak == [Prompt EXCEPT ![NarrowWidth \div 2] = SPACE]

Sizes == {<<NarrowWidth, ShortHeight>>, <<WideWidth, TallHeight>>}
WrapStyles == {"Wrap", "WrapOnPunctuation"}

(***************************************************************************)
(* SpecResize: text is printed and the window is resized, in any order     *)
(***************************************************************************)
ResizeStrings == {<<NL>>, Prompt, PromptWithBreak}

InitResize ==
    \E size \in Sizes, wrap \in WrapStyles :
        InitWith(Configured(size[1], size[2], wrap, FALSE, FALSE, TRUE))

PrintResize ==
    \E str \in ResizeStrings :
        /\ scroll_buffer_length + Len(str) <= ResizeBufLen
        /\ PrintText(str)
        /\ RecordPrint
        /\ UNCHANGED <<paging_history, input_history>>

ResizeBack ==
    \E size \in Sizes :
        /\ Resize(size[1], size[2])
        /\ RecordResize
        /\ UNCHANGED <<paging_history, input_history>>

NextResize == PrintResize \/ ResizeBack

SpecResize == InitResize /\ [][NextResize]_vars

C2_ResizeBackRestoresIndex ==
    (~panicked /\ window_width = base_width) => line_indexes = base_index

\* wrapped text was resized to another width and then back
C2_Witness ==
    /\ last_call.op = "resize"
    /\ ~panicked
    /\ resized_away
    /\ window_width = base_width
    /\ Len(line_indexes) > 2
    /\ \E i \in 1..Len(line_indexes) : line_indexes[i].length = window_width

(***************************************************************************)
(* SpecMore: paging.  The interpreter prints and asks for lines, the GUI   *)
(* resizes the window to another height and delivers Enter key events;     *)
(* once the interpreter has gone quiet only key events arrive.  The        *)
(* interpreter runs on through [MORE] until it asks for a line and then    *)
(* stands still until the line is there (Terp::run_vm).  The GUI polls its *)
(* events on every frame (Eguiio::draw_screen), so a key event that stays  *)
(* possible is delivered.                                                  *)
(***************************************************************************)
\* the interpreter executes instructions
VMRunning == state \in {"Output", "WaitingForMore"}

MoreStates == {"WaitingForMore", "WaitingForMoreThenLine"}
\* an empty line, and as many of them as the short grid has rows
MoreStrings == {<<NL>>, [i \in 1..ShortHeight |-> NL]}
MoreSizes == {<<NarrowWidth, ShortHeight>>, <<NarrowWidth, TallHeight>>}

InitMore ==
    \E more \in BOOLEAN :
        InitWith(Configured(NarrowWidth, ShortHeight, "WrapOnPunctuation", more,
                            FALSE, TRUE))

PrintMore ==
    \E str \in MoreStrings :
        /\ ~quiet
        /\ VMRunning
        /\ scroll_buffer_length + Len(str) <= MoreBufLen
        /\ PrintText(str)
        /\ RecordShown
        /\ UNCHANGED <<request_lines, quiet, resize_history, input_history>>

ResizeMore ==
    \E size \in MoreSizes :
        /\ ~quiet
        /\ Resize(size[1], size[2])
        /\ RecordShown
        /\ UNCHANGED <<request_lines, quiet, resize_history, input_history>>

EnterKey ==
    /\ state = "WaitingForLine" => scroll_buffer_length < MoreBufLen
    /\ Key(NL)
    /\ RecordShown
    /\ UNCHANGED <<request_lines, quiet, resize_history, input_history>>

WaitMore ==
    /\ ~quiet
    /\ VMRunning
    /\ WaitForLine(MaxInput)
    /\ request_lines' = Len(line_indexes)
    /\ UNCHANGED <<shown, quiet, resize_history, input_history>>

\* The interpreter prints nothing more: from here on only key events arrive.
Quiesce ==
    /\ ~quiet
    /\ ~panicked
    /\ quiet' = TRUE
    /\ UNCHANGED <<screen_vars, panicked, overflow_checks, last_call, request_lines,
                    shown, runs, resize_history, input_history>>

NextMore == PrintMore \/ ResizeMore \/ EnterKey \/ WaitMore \/ Quiesce

SpecMore == InitMore /\ [][NextMore]_vars

\* Weak fairness of the key event while the screen shows [MORE], written
\* out (WF_vars(A) is []<>~ENABLED <<A>>_vars \/ []<><<A>>_vars) with the
\* enabling condition as a state predicate: a key event is possible, and
\* changes the scroll offset or the state, whenever the screen shows [MORE].
KeyPossible == state \in MoreStates /\ ~panicked
KeyEvent == last_call'.op = "process_input"
KeyFairness == []<>(~KeyPossible) \/ []<><<KeyEvent>>_vars

SpecMoreFair == SpecMore /\ KeyFairness

BottomOfBuffer == calculate_bottom_scroll_window(Self)

\* a key event has been processed while the screen showed [MORE]
PageAdvance ==
    /\ state \in MoreStates
    /\ last_call'.op = "process_input"
    /\ ~panicked'

\* C3: a page-advance event skips no line: every line it scrolls past,
\* from the old top of the lower window to the new one, has been shown by
\* the lower window in some earlier state.
C3_PageAdvanceSkipsNoLine ==
    [][PageAdvance =>
          \A i \in (scroll_window_top + 1)..scroll_window_top' : i \in shown]_vars

\* a print to the lower window, called in Output, has opened a line
PrintOpensLine ==
    /\ state = "Output"
    /\ selected_window = "Lower"
    /\ last_call'.op = "print"
    /\ ~panicked'
    /\ Len(line_indexes') > Len(line_indexes)

\* C4: in Output, a print that opens a line moves the engine to
\* WaitingForMore exactly when paging is enabled and the lines opened since
\* input was last requested outnumber the rows of the lower window; with
\* paging disabled it never does.
C4_MoreExactlyOnFullPage ==
    [][PrintOpensLine =>
          (state' = "WaitingForMore"
              <=> /\ use_more
                  /\ Len(line_indexes') - request_lines
                        > ScreenWindow_height(lower_window'))]_vars

\* C5: once the interpreter has gone quiet, key events page WaitingForMore
\* on to Output and WaitingForMoreThenLine on to WaitingForLine (never by
\* way of Output), and a key event leaves the "more" state exactly when it
\* leaves the scroll offset at the bottom of the buffer.
C5_PagingEnds ==
    /\ (quiet /\ state = "WaitingForMore") ~> (state = "Output")
    /\ (quiet /\ state = "WaitingForMoreThenLine") ~> (state = "WaitingForLine")
    /\ [][PageAdvance =>
            /\ state' = IF scroll_window_top' # BottomOfBuffer' THEN state
                        ELSE IF state = "WaitingForMore" THEN "Output"
                        ELSE "WaitingForLine"]_vars

\* a key event has paged on and more than a page is still to come
C5_Witness ==
    /\ quiet
    /\ ~panicked
    /\ last_call.op = "process_input"
    /\ state = "WaitingForMoreThenLine"
    /\ scroll_window_top > 0
    /\ scroll_window_top + window_height < BottomOfBuffer

(***************************************************************************)
(* Spec: line input.  The interpreter prints a prompt, splits the window   *)
(* and asks for a line while it runs; the application asks for a line      *)
(* (Terp::restore_autosave) or stops the wait (Terp::update) and the GUI   *)
(* delivers keys and resizes at any time.                                  *)
(***************************************************************************)
WaitStates == {"WaitingForLine", "WaitingForMoreThenLine"}
PrintStrings == {Prompt, PromptWithBreak}
Keys == {97, NL, BACKSPACE}

Init ==
    InitWith(Configured(NarrowWidth, ShortHeight, "WrapOnPunctuation", TRUE, FALSE, TRUE))

PrintPrompt ==
    \E str \in PrintStrings :
        /\ VMRunning
        /\ scroll_buffer_length + Len(str) <= InputBufLen
        /\ PrintText(str)
        /\ UNCHANGED <<resize_history, paging_history, input_history>>

SplitAny ==
    \E lines \in 0..1 :
        /\ VMRunning
        /\ Split(lines)
        /\ UNCHANGED <<resize_history, paging_history, input_history>>

WaitAny ==
    /\ WaitForLine(MaxInput)
    /\ request_length' = scroll_buffer_length
    /\ UNCHANGED <<resize_history, paging_history>>

StopWaiting ==
    /\ StopWaitingForInput
    /\ UNCHANGED <<resize_history, paging_history, input_history>>

\* the player types at a prompt
KeyAny ==
    \E c \in Keys :
        /\ state = "WaitingForLine" =>
              /\ scroll_buffer_length >= Len(Prompt)
              /\ scroll_buffer_length < InputBufLen
        /\ Key(c)
        /\ UNCHANGED <<resize_history, paging_history, input_history>>

ResizeAny ==
    \E size \in Sizes :
        /\ Resize(size[1], size[2])
        /\ UNCHANGED <<resize_history, paging_history, input_history>>

Next ==
    \/ PrintPrompt
    \/ SplitAny
    \/ WaitAny
    \/ StopWaiting
    \/ KeyAny
    \/ ResizeAny

Spec == Init /\ [][Next]_vars

\* C6: process_input returns true exactly when it is called in
\* WaitingForLine with a newline, and the state is then Output.
C6_TrueExactlyOnSubmitThenOutput ==
    (last_call.op = "process_input" /\ ~panicked) =>
        /\ last_call.ret <=> (last_call.from = "WaitingForLine" /\ last_call.arg = NL)
        /\ last_call.ret => state = "Output"

\* C7: during a line wait the accumulated input never holds more than
\* max_input_length chars.
C7_InputWithinMaxLength ==
    (~panicked /\ state \in WaitStates) =>
        Len(last_input(Self)) <= max_input_length

\* C9: stop_waiting_for_input leaves the state Output, and when it cancels
\* a line wait last_input() no longer returns what was typed.
C9_StopWaitingDiscardsInput ==
    (last_call.op = "stop_waiting_for_input" /\ ~panicked) =>
        /\ state = "Output"
        /\ last_call.from \in WaitStates => last_input(Self) = <<>>

\* wait_for_line has been called while the engine was waiting for a line
WaitWhileWaiting ==
    /\ state \in WaitStates
    /\ last_call'.op = "wait_for_line"
    /\ ~panicked'

\* C10 as stated: wait_for_line called while the engine is waiting for a
\* line changes neither the state, the accumulated input nor
\* input_start_location.
C10_WaitWhileWaitingIsNoOp ==
    [][WaitWhileWaiting =>
          /\ state' = state
          /\ last_input_buffer' = last_input_buffer
          /\ input_start_location' = input_start_location]_vars

\* C10: wait_for_line called while the engine is waiting for a line starts
\* the wait over: the state is WaitingForLine (a pending [MORE] is dropped),
\* the accumulated input is empty, input_start_location is the cursor and
\* max_input_length the new one; the text and the grid are left as they are.
C10_WaitWhileWaitingRestarts ==
    [][WaitWhileWaiting =>
          /\ state' = "WaitingForLine"
          /\ last_input_buffer' = <<>>
          /\ input_start_location' = get_cursor_location(Self)
          /\ max_input_length' = MaxInput
          /\ UNCHANGED <<scroll_buffer, scroll_buffer_length, line_indexes,
                         scroll_window_top, grid>>]_vars

\* a wait with a typed char at the cursor has been started over
C10_Witness ==
    /\ last_call.op = "wait_for_line"
    /\ last_call.from \in WaitStates
    /\ ~panicked
    /\ last_input_buffer = <<>>
    /\ scroll_buffer_length > Len(Prompt)
    /\ buf_at(Self, scroll_buffer_length - 1) = 97

\* wait_for_line has been called while the interpreter was running
WaitWhileRunning ==
    /\ state \in {"Output", "WaitingForMore"}
    /\ last_call'.op = "wait_for_line"
    /\ ~panicked'

\* C11: wait_for_line called in Output leaves the state WaitingForLine and
\* called in WaitingForMore leaves it WaitingForMoreThenLine; either way
\* input_start_location is the end of the last line index entry and the
\* accumulated input is empty.
C11_WaitStartsLineWait ==
    [][WaitWhileRunning =>
          /\ state' = IF state = "Output" THEN "WaitingForLine"
                      ELSE "WaitingForMoreThenLine"
          /\ input_start_location'
                = [line_start |-> Len(line_indexes'),
                   line_width |-> window_width',
                   char_index |-> line_indexes'[Len(line_indexes')].length]
          /\ last_input_buffer' = <<>>
          /\ UNCHANGED line_indexes]_vars

\* a line wait has been asked for behind [MORE], with a line entered before
C11_Witness ==
    /\ last_call.op = "wait_for_line"
    /\ last_call.from = "WaitingForMore"
    /\ ~panicked
    /\ state = "WaitingForMoreThenLine"
    /\ last_input_buffer = <<>>
    /\ input_start_location.line_start = Len(line_indexes)
    /\ input_start_location.line_start > 1
    /\ scroll_buffer_length > Len(Prompt)

(***************************************************************************)
(* SpecErase: the player types and erases at a prompt, in both builds and  *)
(* with both wrap styles, while the GUI resizes the window.                *)
(***************************************************************************)
InitErase ==
    \E wrap \in WrapStyles, checks \in BOOLEAN :
        InitWith(Configured(NarrowWidth, ShortHeight, wrap, TRUE, FALSE, checks))

NextErase == PrintPrompt \/ SplitAny \/ WaitAny \/ KeyAny \/ ResizeAny

SpecErase == InitErase /\ [][NextErase]_vars

\* a backspace has been processed during a line wait
Backspace ==
    /\ state = "WaitingForLine"
    /\ last_call'.op = "process_input"
    /\ last_call'.arg = BACKSPACE
    /\ ~panicked'

\* C8: a backspace during a line wait removes no char that was in the
\* scroll buffer when wait_for_line was called, and with no typed char left
\* it changes neither the scroll buffer, the line indexes nor the input.
C8_BackspaceKeepsEarlierText ==
    [][Backspace =>
          /\ scroll_buffer_length' >= request_length
          /\ SubSeq(scroll_buffer', 1, request_length)
                = SubSeq(scroll_buffer, 1, request_length)
          /\ last_input_buffer = <<>> =>
                UNCHANGED <<scroll_buffer, scroll_buffer_length, line_indexes,
                            last_input_buffer>>]_vars

\* every typed char has been erased and one more backspace did nothing
C8_Witness ==
    /\ last_call.op = "process_input"
    /\ last_call.arg = BACKSPACE
    /\ last_call.from = "WaitingForLine"
    /\ ~panicked
    /\ last_input_buffer = <<>>
    /\ scroll_buffer_length = request_length
    /\ request_length >= Len(Prompt)
    /\ Len(scroll_buffer) > scroll_buffer_length

(***************************************************************************)
(* SpecWrap: the interpreter prints to the lower window, char by char and  *)
(* in runs longer than a line, under both wrap styles.                     *)
(***************************************************************************)
\* a letter, the break chars space and full stop, and newline
WrapChars == {97, SPACE, 46, NL}
\* what a run holds in place of one of its letters: a break char or a
\* control char
RunChars == {SPACE, 46, 7}

InitWrap ==
    \E wrap \in WrapStyles :
        InitWith(Configured(NarrowWidth, ShortHeight, wrap, TRUE, FALSE, TRUE))

PrintOne ==
    \E c \in WrapChars :
        /\ scroll_buffer_length < WrapBufLen
        /\ c # 97 =>
              Cardinality({i \in 1..scroll_buffer_length : scroll_buffer[i] # 97})
                  < WrapBreaks
        /\ PrintText(<<c>>)
        /\ UNCHANGED <<resize_history, paging_history, input_history>>

\* window_width + k chars: letters, but for c at place p (none for p = 0)
Run(k, p, c) == [i \in 1..(window_width + k) |-> IF i = p THEN c ELSE 97]

\* a run is printed on an empty line
PrintRun ==
    \E k \in {1, window_width - 1, window_width},
       p \in {0, 1, window_width, window_width + 1},
       c \in RunChars :
        /\ scroll_buffer_length <= RunStart
        /\ line_indexes[Len(line_indexes)].length = 0
        /\ PrintText(Run(k, p, c))
        /\ UNCHANGED <<resize_history, paging_history, input_history>>

NextWrap == PrintOne \/ PrintRun

SpecWrap == InitWrap /\ [][NextWrap]_vars

LastLine == line_indexes[Len(line_indexes)]

\* a print to the lower window has returned
PrintedToLower ==
    /\ selected_window = "Lower"
    /\ last_call'.op = "print"
    /\ ~panicked'

\* under hard wrap, more chars than a line holds and no more than two lines
\* hold, none of them a newline, have been printed on an empty line
RunPrinted ==
    /\ PrintedToLower
    /\ wrap_style = "Wrap"
    /\ LastLine.length = 0
    /\ scroll_buffer_length' - scroll_buffer_length > window_width
    /\ scroll_buffer_length' - scroll_buffer_length <= 2 * window_width
    /\ \A i \in (scroll_buffer_length + 1)..scroll_buffer_length' :
           scroll_buffer'[i] # NL

\* C12: under hard wrap, width + k chars without a newline (0 < k <= width)
\* printed on an empty line leave that line with exactly width chars and
\* open exactly one more line, of exactly k chars, whatever the chars are.
C12_HardWrapSplitsAtWidth ==
    [][RunPrinted =>
          /\ Len(line_indexes') = Len(line_indexes) + 1
          /\ line_indexes'[Len(line_indexes)].length = window_width
          /\ line_indexes'[Len(line_indexes) + 1].length
                = scroll_buffer_length' - scroll_buffer_length - window_width]_vars

\* a run of two full lines with a space in it has been printed below an
\* empty line
C12_Witness ==
    /\ last_call.op = "print"
    /\ ~panicked
    /\ wrap_style = "Wrap"
    /\ Len(line_indexes) = 3
    /\ line_indexes[1].length = 0
    /\ line_indexes[2].length = window_width
    /\ line_indexes[3].length = window_width
    /\ \E i \in 1..scroll_buffer_length : scroll_buffer[i] = SPACE

\* the chars the claim calls break-eligible: space , ! : ; ? . -
BreakEligible == {32, 44, 33, 58, 59, 63, 46, 45}

\* the places (from 0) of the last line that hold a break-eligible char
LastLineBreaks ==
    {i \in 0..(LastLine.length - 1) :
        scroll_buffer[LastLine.start + i + 1] \in BreakEligible}

\* under wrap-on-boundary one char, no space and no newline, has been
\* printed to a full last line that holds a break-eligible char
Overflowed ==
    /\ PrintedToLower
    /\ wrap_style = "WrapOnPunctuation"
    /\ scroll_buffer_length' = scroll_buffer_length + 1
    /\ scroll_buffer'[scroll_buffer_length'] \notin {SPACE, NL}
    /\ LastLine.length >= window_width
    /\ LastLineBreaks # {}

\* C13: under wrap-on-boundary a char that is no space and overflows a full
\* line holding a break-eligible char cuts the line right behind its last
\* break-eligible char and opens a line that holds the chars behind the cut
\* and the new char.
C13_BoundaryWrapCutsAfterLastBreak ==
    [][Overflowed =>
          LET cut == SetMax(LastLineBreaks) + 1 IN
          /\ Len(line_indexes') = Len(line_indexes) + 1
          /\ line_indexes'[Len(line_indexes)]
                = [start |-> LastLine.start, length |-> cut]
          /\ line_indexes'[Len(line_indexes) + 1]
                = [start |-> LastLine.start + cut,
                   length |-> LastLine.length - cut + 1]]_vars

\* a word has been carried to a new line: the line before ends in a break
\* char short of the width, the last line holds letters only
C13_Witness ==
    /\ last_call.op = "print"
    /\ ~panicked
    /\ wrap_style = "WrapOnPunctuation"
    /\ Len(line_indexes) = 2
    /\ line_indexes[1].length < window_width
    /\ line_indexes[2].length > 2
    /\ scroll_buffer[line_indexes[1].length] \in BreakEligible
    /\ line_indexes[2].start = line_indexes[1].length
    /\ \A i \in (line_indexes[2].start + 1)..scroll_buffer_length :
           scroll_buffer[i] = 97

(***************************************************************************)
(* SpecSplit: the interpreter prints, splits the window and selects a      *)
(* window while the GUI resizes the grid to any height from one row on, in *)
(* both builds.                                                            *)
(***************************************************************************)
SplitStrings == {<<NL>>, <<97>>}
Windows == {"Upper", "Lower"}

InitSplit ==
    \E checks \in BOOLEAN :
        InitWith(Configured(NarrowWidth, ShortHeight, "WrapOnPunctuation", TRUE,
                            FALSE, checks))

\* text goes to the lower window, and to the first cell of the upper one
PrintSplit ==
    \E str \in SplitStrings :
        /\ IF selected_window = "Lower"
           THEN scroll_buffer_length + Len(str) <= SplitBufLen
           ELSE /\ str # <<NL>>
                /\ upper_cursor.line_start = upper_window.top_index
                /\ upper_cursor.char_index = 0
        /\ PrintText(str)
        /\ UNCHANGED <<resize_history, paging_history, input_history>>

SplitWindow ==
    \E lines \in 0..SplitLines :
        /\ Split(lines)
        /\ UNCHANGED <<resize_history, paging_history, input_history>>

SelectWindow ==
    \E window \in Windows :
        /\ SetWindow(window)
        /\ UNCHANGED <<resize_history, paging_history, input_history>>

ResizeSplit ==
    \E height \in TinyHeight..TallHeight :
        /\ Resize(NarrowWidth, height)
        /\ UNCHANGED <<resize_history, paging_history, input_history>>

NextSplit == PrintSplit \/ SplitWindow \/ SelectWindow \/ ResizeSplit

SpecSplit == InitSplit /\ [][NextSplit]_vars

\* C14: split_window(lines) with lines > 0 and the lower window selected
\* returns with the upper window min(lines, height of the grid less the
\* status bar less one) rows high, whatever lines and the grid height are.
C14_SplitSetsUpperHeight ==
    (last_call.op = "split_window" /\ last_call.arg > 0 /\ selected_window = "Lower") =>
        /\ ~panicked
        /\ ScreenWindow_height(upper_window)
              = Min(last_call.arg, window_height - STATUS_BAR_HEIGHT - 1)

\* C15: split_window called while the upper window is selected changes
\* nothing: the windows, the scroll offset, the grid and the state are the
\* ones before the call, as is every other field of the screen.
C15_SplitInUpperIsNoOp ==
    [][(last_call'.op = "split_window" /\ selected_window = "Upper") =>
          /\ ~panicked'
          /\ UNCHANGED screen_vars]_vars

\* a split that the lower window would have followed has been asked for
\* with the upper window selected, over text printed to both windows
C15_Witness ==
    /\ last_call.op = "split_window"
    /\ last_call.arg > 0
    /\ selected_window = "Upper"
    /\ ~panicked
    /\ window_height > STATUS_BAR_HEIGHT + 1
    /\ ScreenWindow_height(upper_window)
          # Min(last_call.arg, window_height - STATUS_BAR_HEIGHT - 1)
    /\ scroll_buffer_length > 0

(***************************************************************************)
(* SpecStatus: the interpreter draws the status bar with strings short of, *)
(* as long as and longer than the two fields, between prints, on a narrow  *)
(* grid and on a grid of the minimum size.                                 *)
(***************************************************************************)
StatusSizes == {<<StatusWidth, ShortHeight>>, <<MIN_WIDTH, MIN_HEIGHT>>}
StatusStrings == {<<NL>>, <<97>>}

\* a string of n letters, no two neighbours alike
Text(n) == [i \in 1..n |-> 97 + ((i - 1) % 26)]

\* the cells of the status bar left of the right field
LeftField == window_width - MAX_RIGHT_STATUS_WIDTH - 1

LeftLengths == {0, LeftField - 1, LeftField, LeftField + 1}
RightLengths == {0, MAX_RIGHT_STATUS_WIDTH - 1, MAX_RIGHT_STATUS_WIDTH,
                 MAX_RIGHT_STATUS_WIDTH + 1, MAX_RIGHT_STATUS_WIDTH + RightExcess}

InitStatus ==
    \E size \in StatusSizes :
        InitWith(Configured(size[1], size[2], "WrapOnPunctuation", TRUE, FALSE, TRUE))

PrintStatus ==
    \E str \in StatusStrings :
        /\ scroll_buffer_length + Len(str) <= StatusBufLen
        /\ PrintText(str)
        /\ UNCHANGED <<resize_history, paging_history, input_history>>

DrawStatusAny ==
    \E n \in LeftLengths, m \in RightLengths :
        /\ DrawStatus(Text(n), Text(m))
        /\ UNCHANGED <<resize_history, paging_history, input_history>>

NextStatus == PrintStatus \/ DrawStatusAny

SpecStatus == InitStatus /\ [][NextStatus]_vars

\* the char in column col of the status bar
StatusCh(col) == grid.grid[status_window.top_index * grid.width + col].ch

\* C16: draw_status leaves the grid cursor at the row and the column it had
\* before the call, wherever the cursor was and whatever the strings are.
C16_DrawStatusKeepsCursor ==
    [][(last_call'.op = "draw_status" /\ ~panicked') =>
          /\ get_cur_yx(grid') = get_cur_yx(grid)
          /\ grid'.cursor = grid.cursor]_vars

\* the status bar has been drawn with both strings given and the cursor
\* inside a row below it
C16_Witness ==
    /\ last_call.op = "draw_status"
    /\ ~panicked
    /\ status.status_left # <<>>
    /\ status.status_right # <<>>
    /\ grid.cursor \div grid.width > 0
    /\ grid.cursor % grid.width > 0

\* C17: draw_status shows a left string no longer than the left field in
\* full, padded with spaces to the width of the field; a longer one it
\* shows cut to the field less four cells, followed by "... ".
C17_LeftShownInFullWhenItFits ==
    (last_call.op = "draw_status" /\ ~panicked) =>
        LET left == status.status_left IN
        \A col \in 0..(LeftField - 1) :
            StatusCh(col) =
                IF Len(left) <= LeftField
                THEN IF col < Len(left) THEN left[col + 1] ELSE SPACE
                ELSE IF col < LeftField - 4 THEN left[col + 1]
                     ELSE Ellipsis[col - (LeftField - 4) + 1]

\* C18: draw_status shows a right string shorter than the right field at
\* the end of the status bar, its last char in the last column, behind
\* spaces; of a right string too long for the field it shows the trailing
\* chars, the last of them in the last column.
C18_RightAlignedTrailingKept ==
    (last_call.op = "draw_status" /\ ~panicked) =>
        LET right == status.status_right IN
        IF Len(right) < MAX_RIGHT_STATUS_WIDTH
        THEN \A col \in LeftField..(window_width - 1) :
                 StatusCh(col) =
                     IF col < window_width - Len(right) THEN SPACE
                     ELSE right[col - (window_width - Len(right)) + 1]
        ELSE \A j \in 0..(MAX_RIGHT_STATUS_WIDTH - 1) :
                 StatusCh(window_width - 1 - j) = right[Len(right) - j]

\* C19: on a grid of the minimum size or more draw_status returns, whatever
\* the lengths of the two strings, and has then written every cell of the
\* status bar and no other cell.
C19_DrawStatusAlwaysReturns ==
    [][(/\ last_call'.op = "draw_status"
        /\ window_width >= MIN_WIDTH
        /\ window_height >= MIN_HEIGHT) =>
          /\ ~panicked'
          /\ \A i \in DOMAIN grid.grid :
                IF i < grid.width
                THEN grid'.grid[i].style = "Inverted"
                ELSE grid'.grid[i] = grid.grid[i]]_vars

(***************************************************************************)
(* SpecSmall: with size validation on, the GUI resizes the grid to sizes   *)
(* below the minimum and the application redraws, over any text printed.   *)
(***************************************************************************)
SmallSizes == {<<TinyWidth, TallHeight>>, <<NarrowWidth, ShortHeight>>,
               <<MessageWidth, ShortHeight>>, <<MessageWidth, TallHeight>>}
SmallStrings == {<<NL>>, <<97>>}

InitSmall ==
    InitWith(Configured(MessageWidth, ShortHeight, "WrapOnPunctuation", TRUE, TRUE, TRUE))

PrintSmall ==
    \E str \in SmallStrings :
        /\ scroll_buffer_length + Len(str) <= SmallBufLen
        /\ PrintText(str)
        /\ UNCHANGED <<resize_history, paging_history, input_history>>

ResizeSmall ==
    \E size \in SmallSizes :
        /\ Resize(size[1], size[2])
        /\ UNCHANGED <<resize_history, paging_history, input_history>>

RedrawSmall ==
    /\ Redraw
    /\ UNCHANGED <<resize_history, paging_history, input_history>>

NextSmall == PrintSmall \/ ResizeSmall \/ RedrawSmall

SpecSmall == InitSmall /\ [][NextSmall]_vars

\* the three lines of the message: "WINDOW TOO SMALL.", "MINIMUM SIZE 60x14"
\* and "CURRENT SIZE " with the width, an x and the height of the grid
MessageLines ==
    << <<87, 73, 78, 68, 79, 87, 32, 84, 79, 79, 32, 83, 77, 65, 76, 76, 46>>,
       <<77, 73, 78, 73, 77, 85, 77, 32, 83, 73, 90, 69, 32, 54, 48, 120, 49, 52>>,
       <<67, 85, 82, 82, 69, 78, 84, 32, 83, 73, 90, 69, 32>>
           \o decimal(window_width) \o <<120>> \o decimal(window_height) >>

\* the grid shows the lines of the message, one to a row from the top, and
\* nothing else
GridShowsMessage ==
    \A row \in 0..(grid.height - 1), col \in 0..(grid.width - 1) :
        grid.grid[row * grid.width + col].ch =
            IF row < Len(MessageLines) /\ col < Len(MessageLines[row + 1])
            THEN MessageLines[row + 1][col + 1]
            ELSE SPACE

\* every size the grid is resized to is positive and below the minimum
AllSizesSmall ==
    \A size \in SmallSizes :
        /\ size[1] > 0 /\ size[1] < MIN_WIDTH
        /\ size[2] > 0 /\ size[2] < MIN_HEIGHT

\* C20: with size validation on, for every positive grid size below the
\* minimum of 60 columns by 14 rows, resize returns and so does the redraw
\* that follows, and the grid then shows the "window too small" message and
\* nothing of the transcript, whatever text the scroll buffer holds.
C20_SmallWindowShowsMessage ==
    (AllSizesSmall /\ validate_size /\ last_call.op \in {"resize", "redraw"}) =>
        /\ ~panicked
        /\ last_call.op = "redraw" => GridShowsMessage

(***************************************************************************)
(* SpecRuns: the GUI flattens the grid to runs between prints, status      *)
(* draws, line waits and keys.                                             *)
(***************************************************************************)
RunsBufLen == 2
RunsStrings == {<<NL>>, <<97>>}
RunsKeys == {98, NL}

InitRuns ==
    InitWith(Configured(StatusWidth, ShortHeight, "WrapOnPunctuation", TRUE, FALSE, TRUE))

PrintRuns ==
    \E str \in RunsStrings :
        /\ scroll_buffer_length + Len(str) <= RunsBufLen
        /\ PrintText(str)
        /\ UNCHANGED <<resize_history, paging_history, input_history>>

DrawStatusRuns ==
    \E n \in {0, 2} :
        /\ DrawStatus(Text(n), Text(n))
        /\ UNCHANGED <<resize_history, paging_history, input_history>>

WaitRuns ==
    /\ WaitForLine(MaxInput)
    /\ UNCHANGED <<resize_history, paging_history, input_history>>

KeyRuns ==
    \E c \in RunsKeys :
        /\ scroll_buffer_length + 1 <= RunsBufLen
        /\ Key(c)
        /\ UNCHANGED <<resize_history, paging_history, input_history>>

FlattenRuns ==
    \E show_cursor \in BOOLEAN :
        /\ GridToRuns(show_cursor)
        /\ UNCHANGED <<resize_history, paging_history, input_history>>

NextRuns == PrintRuns \/ DrawStatusRuns \/ WaitRuns \/ KeyRuns \/ FlattenRuns

SpecRuns == InitRuns /\ [][NextRuns]_vars

RECURSIVE RunCells(_)
\* the chars of a run list, each with the style of its run
RunCells(rs) ==
    IF rs = <<>> THEN <<>>
    ELSE [i \in 1..Len(Head(rs).line) |-> [ch |-> Head(rs).line[i], style |-> Head(rs).style]]
             \o RunCells(Tail(rs))

\* the p-th char of the rows in row-major order, one newline between rows:
\* the offset of its cell, or -1 for a newline
CellOfChar(p) ==
    IF p <= grid.width THEN p - 1
    ELSE IF (p - 1 - grid.width) % (grid.width + 1) = 0 THEN -1
         ELSE (1 + (p - 1 - grid.width) \div (grid.width + 1)) * grid.width
                  + ((p - 1 - grid.width) % (grid.width + 1)) - 1

\* C22: the runs returned by grid_to_runs are maximal and complete: adjacent
\* runs differ in style, the run texts concatenated are the rows of the grid
\* in row-major order with one newline between consecutive rows, and each
\* cell carries its stored style, but for the cell under a shown cursor,
\* which is Inverted.
C22_RunsAreMaximalAndComplete ==
    last_call.op = "grid_to_runs" =>
        /\ \A i \in 1..(Len(runs) - 1) : runs[i].style # runs[i + 1].style
        /\ Len(RunCells(runs)) = GridLen(grid) + grid.height - 1
        /\ \A p \in 1..Len(RunCells(runs)) :
               IF CellOfChar(p) = -1
               THEN RunCells(runs)[p].ch = NL
               ELSE /\ RunCells(runs)[p].ch = grid.grid[CellOfChar(p)].ch
                    /\ RunCells(runs)[p].style =
                           IF last_call.arg = 1 /\ CellOfChar(p) = grid.cursor
                           THEN "Inverted"
                           ELSE grid.grid[CellOfChar(p)].style

\* the cursor is shown in the middle of Normal text, under an Inverted
\* status bar: four runs
C22_Witness ==
    /\ last_call.op = "grid_to_runs"
    /\ last_call.arg = 1
    /\ state = "WaitingForLine"
    /\ scroll_buffer_length > 0
    /\ Len(runs) >= 4

(***************************************************************************)
(* The line indexes and the windows, in every state                        *)
(***************************************************************************)
\* the line indexes a replay of the scroll buffer builds from scratch, at the
\* current width and wrap style
ReplayedLineIndexes == recalculate_line_indexes(Self).line_indexes

\* C23: in every state (after any prints, line-input keys, backspaces over a
\* wrapped line boundary included, and resizes) the line indexes kept
\* incrementally are the line indexes a replay of the scroll buffer builds.
C23_LineIndexEqualsReplay ==
    ~panicked => line_indexes = ReplayedLineIndexes

\* entry i of the line indexes (1-based) and the next one are contiguous: the
\* next starts where entry i ends, or one further when a newline stands there
Contiguous(i) ==
    LET end == line_indexes[i].start + line_indexes[i].length
    IN  \/ line_indexes[i + 1].start = end
        \/ /\ line_indexes[i + 1].start = end + 1
           /\ buf_at(Self, end) = NL

\* C24: in every state the line indexes have at least one entry, the entries
\* are in increasing start order and contiguous (each starts at the end of
\* the one before, plus one when a newline separates them), and no entry is
\* longer than the grid is wide.
C24_LineIndexWellFormed ==
    ~panicked =>
        /\ Len(line_indexes) >= 1
        /\ \A i \in 1..(Len(line_indexes) - 1) :
               /\ line_indexes[i].start < line_indexes[i + 1].start
               /\ Contiguous(i)
        /\ \A i \in 1..Len(line_indexes) : line_indexes[i].length <= grid.width

\* C25: in every state the status window ends where the upper window starts,
\* the lower window ends at the bottom of the grid, and the upper window ends
\* at or above the top of the lower window: the two never overlap.
C25_WindowsDoNotOverlap ==
    ~panicked =>
        /\ status_window.bottom_index = upper_window.top_index
        /\ lower_window.bottom_index = grid.height
        /\ upper_window.bottom_index <= lower_window.top_index

\* C26: in every state the cursor of the grid is the offset of a cell,
\* 0 <= cursor < width * height, also after a line of exactly width chars
\* was drawn on the bottom row.
C26_CursorInsideGrid ==
    ~panicked => (0 <= grid.cursor /\ grid.cursor < grid.width * grid.height)

\* C27: after a resize the status window is row 0, the upper window starts at
\* row 1 and keeps the height it had, clamped so that it ends at or above the
\* last row (upper.bottom <= height - 1), and the lower window ends at the
\* height of the new grid.
C27_ResizeClampsUpperWindow ==
    [][(last_call'.op = "resize" /\ ~panicked') =>
          /\ status_window' = [top_index |-> 0, bottom_index |-> 1]
          /\ upper_window'.top_index = 1
          /\ upper_window'.bottom_index <= grid'.height - 1
          /\ (1 + ScreenWindow_height(upper_window) <= grid'.height - 1) =>
                 ScreenWindow_height(upper_window') = ScreenWindow_height(upper_window)
          /\ lower_window'.bottom_index = grid'.height]_vars

\* the rows of the lower window show what a redraw draws there: the visible
\* slice of the line indexes
LowerWindowDrawn ==
    \A i \in (lower_window.top_index * grid.width)..(lower_window.bottom_index * grid.width - 1) :
        grid.grid[i].ch = redraw(Self).grid.grid[i].ch

\* C28: a resize forces a redraw: right after a resize of an engine of valid
\* size with a non-empty scroll buffer, the rows of the lower window show the
\* visible slice of the rebuilt line indexes, not blank cells.
C28_ResizeRedraws ==
    (/\ last_call.op = "resize"
     /\ ~panicked
     /\ scroll_buffer_length > 0
     /\ is_size_valid(Self)) => LowerWindowDrawn

\* C30: a character processed in WaitingForLine never triggers MORE: after it
\* the state is neither WaitingForMore nor WaitingForMoreThenLine, however
\* many line index entries the typed text opened and also with paging on.
C30_TypingNeverTriggersMore ==
    (/\ last_call.op = "process_input"
     /\ last_call.from = "WaitingForLine"
     /\ ~panicked) => state \notin {"WaitingForMore", "WaitingForMoreThenLine"}

(***************************************************************************)
(* SpecKeep: the GUI resizes the window while text is printed page by      *)
(* page, with a status line drawn, with paging on and off.                 *)
(***************************************************************************)
KeepBufLen == 4
KeepSizes == {<<StatusWidth, ShortHeight>>, <<StatusWidth, TallHeight>>}

InitKeep ==
    \E more \in BOOLEAN :
        InitWith(Configured(StatusWidth, ShortHeight, "WrapOnPunctuation", more, FALSE, TRUE))

PrintKeep ==
    /\ VMRunning
    /\ scroll_buffer_length + 1 <= KeepBufLen
    /\ PrintText(<<NL>>)
    /\ UNCHANGED <<resize_history, paging_history, input_history>>

StatusKeep ==
    /\ status.status_left = <<>>
    /\ DrawStatus(Text(2), Text(1))
    /\ UNCHANGED <<resize_history, paging_history, input_history>>

WaitKeep ==
    /\ VMRunning
    /\ WaitForLine(MaxInput)
    /\ UNCHANGED <<resize_history, paging_history, input_history>>

KeyKeep ==
    /\ state = "WaitingForLine" => scroll_buffer_length + 1 <= KeepBufLen
    /\ Key(NL)
    /\ UNCHANGED <<resize_history, paging_history, input_history>>

ResizeKeep ==
    \E size \in KeepSizes :
        /\ Resize(size[1], size[2])
        /\ UNCHANGED <<resize_history, paging_history, input_history>>

NextKeep == PrintKeep \/ StatusKeep \/ WaitKeep \/ KeyKeep \/ ResizeKeep

SpecKeep == InitKeep /\ [][NextKeep]_vars

\* C29: a resize leaves the state, the paging flag and the stored status line
\* strings as they were; in particular the replay of the scroll buffer it
\* performs does not leave the engine in WaitingForMore.
C29_ResizeKeepsStateAndPaging ==
    [][(last_call'.op = "resize" /\ ~panicked') =>
          /\ state' = state
          /\ use_more' = use_more
          /\ status' = status]_vars

\* a resize in Output with paging on and a status line drawn, over more lines
\* than a page holds: printed with paging on, they would have paused
C29_Witness ==
    /\ last_call.op = "resize"
    /\ ~panicked
    /\ state = "Output"
    /\ use_more
    /\ status.status_left # <<>>
    /\ Len(line_indexes) - 1 > ScreenWindow_height(lower_window)

(***************************************************************************)
(* Wrap-on-boundary with no break char in the line                         *)
(***************************************************************************)
\* under wrap-on-boundary one char, no newline, has been printed to a full
\* last line that holds no break-eligible char
OverflowedUnbroken ==
    /\ PrintedToLower
    /\ wrap_style = "WrapOnPunctuation"
    /\ scroll_buffer_length' = scroll_buffer_length + 1
    /\ scroll_buffer'[scroll_buffer_length'] # NL
    /\ LastLine.length >= window_width
    /\ LastLineBreaks = {}

\* C34: under wrap-on-boundary a char that overflows a line holding no
\* break-eligible char splits the line at exactly width chars, as hard wrap
\* does: the line keeps width chars and the new line holds the new char only.
C34_UnbrokenLineWrapsAtWidth ==
    [][OverflowedUnbroken =>
          /\ Len(line_indexes') = Len(line_indexes) + 1
          /\ line_indexes'[Len(line_indexes)]
                = [start |-> LastLine.start, length |-> window_width]
          /\ line_indexes'[Len(line_indexes) + 1]
                = [start |-> LastLine.start + window_width, length |-> 1]]_vars

\* the first line ever printed was letters only and one more than the width:
\* a full first line and a second line of one char
C34_Witness ==
    /\ last_call.op = "print"
    /\ ~panicked
    /\ wrap_style = "WrapOnPunctuation"
    /\ scroll_buffer_length = window_width + 1
    /\ \A i \in 1..scroll_buffer_length : scroll_buffer[i] = 97
    /\ line_indexes = <<[start |-> 0, length |-> window_width],
                        [start |-> window_width, length |-> 1]>>

(***************************************************************************)
(* The windows after split_window and print                                *)
(***************************************************************************)
\* C31: split_window with the lower window selected: when the lower window's
\* top was the upper window's bottom before the call, it is the upper
\* window's new bottom after it; when the two were not touching, the lower
\* window's top is left as it was.
C31_SplitScrollInRule ==
    [][(last_call'.op = "split_window" /\ selected_window = "Lower" /\ ~panicked') =>
          IF lower_window.top_index = upper_window.bottom_index
          THEN lower_window'.top_index = upper_window'.bottom_index
          ELSE lower_window'.top_index = lower_window.top_index]_vars

\* a split to one or two rows has returned with the lower window still below
\* the upper one: the two were not touching, and the lower window stayed
C31_Witness ==
    /\ last_call.op = "split_window"
    /\ last_call.arg > 0
    /\ ~panicked
    /\ selected_window = "Lower"
    /\ ScreenWindow_height(upper_window) > 0
    /\ upper_window.bottom_index < lower_window.top_index

(***************************************************************************)
(* SpecUpper: on a grid of four rows the interpreter splits the window,    *)
(* selects a window and prints text with newlines to either window.        *)
(***************************************************************************)
UpperBufLen == 2
UpperCols == 2
UpperStrings == {<<NL>>, <<98>>}

InitUpper ==
    InitWith(Configured(NarrowWidth, TallHeight, "WrapOnPunctuation", TRUE, FALSE, TRUE))

PrintUpper ==
    \E str \in UpperStrings :
        /\ IF selected_window = "Lower"
           THEN scroll_buffer_length + Len(str) <= UpperBufLen
           ELSE str = <<NL>> \/ upper_cursor.char_index < UpperCols
        /\ PrintText(str)
        /\ UNCHANGED <<resize_history, paging_history, input_history>>

NextUpper == PrintUpper \/ SplitWindow \/ SelectWindow

SpecUpper == InitUpper /\ [][NextUpper]_vars

\* C32: after split_window(lines) with lines > 0 and the lower window
\* selected, every cell in the rows of the upper window holds the blank
\* default char when the call returns.
C32_SplitClearsUpperWindow ==
    (/\ last_call.op = "split_window"
     /\ last_call.arg > 0
     /\ selected_window = "Lower"
     /\ ~panicked) =>
        \A i \in (upper_window.top_index * grid.width)..(upper_window.bottom_index * grid.width - 1) :
            i \in DOMAIN grid.grid /\ grid.grid[i].ch = grid.default_char

\* the row of the cell at offset i
RowOf(i) == i \div grid.width

\* C33: a print with the upper window selected leaves the scroll buffer, its
\* length, the line indexes and the scroll offset as they were, and changes
\* only cells in rows of the upper window: no cell of the status row or of a
\* row of the lower window.
C33_UpperPrintStaysInUpperWindow ==
    [][(last_call'.op = "print" /\ selected_window = "Upper" /\ ~panicked') =>
          /\ UNCHANGED <<scroll_buffer, scroll_buffer_length, line_indexes, scroll_window_top>>
          /\ \A i \in DOMAIN grid.grid :
                 grid'.grid[i] # grid.grid[i] =>
                     /\ upper_window.top_index <= RowOf(i)
                     /\ RowOf(i) < upper_window.bottom_index]_vars

(***************************************************************************)
(* SpecScroll: as SpecKeep, with the player paging up and down through the *)
(* text at any time.                                                       *)
(***************************************************************************)
PageUp ==
    /\ ScrollPageUp
    /\ UNCHANGED <<resize_history, paging_history, input_history>>

PageDown ==
    /\ ScrollPageDown
    /\ UNCHANGED <<resize_history, paging_history, input_history>>

NextScroll == NextKeep \/ PageUp \/ PageDown

SpecScroll == InitKeep /\ [][NextScroll]_vars

\* C35: when a print to the lower window made in Output has returned in
\* Output, the view is at the bottom: the scroll offset is the number of line
\* indexes less the height of the lower window once the lower window is
\* attached and full, and 0 before; also when the player had paged up.
C35_PrintScrollsToBottom ==
    (/\ last_call.op = "print"
     /\ last_call.from = "Output"
     /\ state = "Output"
     /\ selected_window = "Lower"
     /\ ~panicked) => scroll_window_top = calculate_bottom_scroll_window(Self)

(***************************************************************************)
(* Scroll-in: text rises from the bottom of the grid                       *)
(***************************************************************************)
\* the chars line n (from 1) of the line indexes shows on its row: under
\* wrap-on-boundary a space at its start is left out
ShownText(n) ==
    LET line == line_indexes[n]
        first == IF /\ wrap_style = "WrapOnPunctuation"
                    /\ line.length > 0
                    /\ scroll_buffer[line.start + 1] = SPACE
                 THEN 1 ELSE 0
    IN  [k \in 1..(line.length - first) |-> scroll_buffer[line.start + first + k]]

\* row y of the grid holds the chars of line n from column 0 on
RowShows(y, n) ==
    \A k \in 1..Min(Len(ShownText(n)), grid.width) :
        grid.grid[y * grid.width + (k - 1)].ch = ShownText(n)[k]

\* the rows below the upper window
RowsBelowUpper == grid.height - upper_window.bottom_index

\* C36: after a print made in Output has returned in Output, the last
\* min(k, rows below the upper window) of the k rendered lines occupy the
\* bottom rows of the grid in order: all k lines while they fit, the last
\* lower-height lines once the lower window is full.
C36_TextRisesFromBottom ==
    (/\ last_call.op = "print"
     /\ last_call.from = "Output"
     /\ state = "Output"
     /\ selected_window = "Lower"
     /\ ~panicked)
    => \A j \in 1..Min(Len(line_indexes), RowsBelowUpper) :
           RowShows(grid.height - j, Len(line_indexes) - j + 1)

\* two lines of text have been printed to a grid with three rows below the
\* upper window: the lower window is not yet full
C36_Witness ==
    /\ last_call.op = "print"
    /\ last_call.from = "Output"
    /\ state = "Output"
    /\ ~panicked
    /\ RowsBelowUpper = 3
    /\ Len(line_indexes) = 2
    /\ line_indexes[1].length > 0
    /\ line_indexes[2].length > 0

\* more lines of text than the lower window holds have been printed
C36_WitnessFull ==
    /\ last_call.op = "print"
    /\ last_call.from = "Output"
    /\ state = "Output"
    /\ ~panicked
    /\ Len(line_indexes) > RowsBelowUpper
    /\ \A j \in 1..RowsBelowUpper : line_indexes[Len(line_indexes) - j + 1].length > 0

(***************************************************************************)
(* Wrap-on-boundary: a space in the first column                           *)
(***************************************************************************)
\* line n of the line indexes starts with a space
StartsWithSpace(n) ==
    /\ line_indexes[n].length > 0
    /\ scroll_buffer[line_indexes[n].start + 1] = SPACE

\* row y of the grid shows line n without its first char: the chars behind
\* it from column 0 on, and a blank cell where its last char would be
DrawnWithoutFirstChar(y, n) ==
    \A k \in 1..line_indexes[n].length :
        grid.grid[y * grid.width + (k - 1)].ch
            = IF k < line_indexes[n].length
              THEN scroll_buffer[line_indexes[n].start + 1 + k]
              ELSE grid.default_char

\* every line on the grid that starts with a space is drawn without it
LeadingSpacesLeftOut ==
    \A j \in 1..Min(Len(line_indexes), RowsBelowUpper) :
        StartsWithSpace(Len(line_indexes) - j + 1)
            => DrawnWithoutFirstChar(grid.height - j, Len(line_indexes) - j + 1)

\* under wrap-on-boundary one char, no newline, has been printed in Output
\* to a last line that has room for it and starts with a space: the char is
\* the space and the line was empty, or the line held a space at its start
PrintedBehindLeadingSpace ==
    /\ PrintedToLower
    /\ wrap_style = "WrapOnPunctuation"
    /\ state = "Output"
    /\ state' = "Output"
    /\ scroll_buffer_length' = scroll_buffer_length + 1
    /\ scroll_buffer'[scroll_buffer_length'] # NL
    /\ LastLine.length < window_width
    /\ IF LastLine.length = 0
       THEN scroll_buffer'[scroll_buffer_length'] = SPACE
       ELSE scroll_buffer[LastLine.start + 1] = SPACE

\* C37: under wrap-on-boundary a line whose first char in the scroll buffer
\* is a space is drawn without the space, its other chars from column 0 on,
\* while the space stays in the scroll buffer and is counted in the length
\* of the line index.
C37_LeadingSpaceNotDrawn ==
    [][PrintedBehindLeadingSpace =>
          /\ Len(line_indexes') = Len(line_indexes)
          /\ line_indexes'[Len(line_indexes)]
                = [start |-> LastLine.start, length |-> LastLine.length + 1]
          /\ scroll_buffer'[LastLine.start + 1] = SPACE
          /\ LeadingSpacesLeftOut']_vars

\* a line that starts with a space and holds two letters behind it has been
\* printed
C37_Witness ==
    /\ last_call.op = "print"
    /\ ~panicked
    /\ state = "Output"
    /\ wrap_style = "WrapOnPunctuation"
    /\ StartsWithSpace(Len(line_indexes))
    /\ LastLine.length = 3
    /\ scroll_buffer[LastLine.start + 2] = 97
    /\ scroll_buffer[LastLine.start + 3] = 97

(***************************************************************************)
(* The scroll offset and the line indexes                                  *)
(***************************************************************************)
\* C38: the scroll offset stays in range after every call that returns:
\* scroll_window_top + min(height of the lower window, number of line
\* indexes) is no more than the number of line indexes, so that redraw
\* never reads past the line indexes.
C38_ScrollOffsetInRange ==
    ~panicked =>
        /\ scroll_window_top >= 0
        /\ scroll_window_top
              + Min(ScreenWindow_height(lower_window), Len(line_indexes))
                 <= Len(line_indexes)

\* C39: the line indexes cover exactly the live scroll buffer: after every
\* call that returns, the start plus the length of the last line index is
\* scroll_buffer_length.
C39_LineIndexCoversBuffer ==
    ~panicked =>
        LastLine.start + LastLine.length = scroll_buffer_length

(***************************************************************************)
(* Printing while the screen shows [MORE]                                  *)
(***************************************************************************)
\* a print to the lower window made in WaitingForMore has returned (the
\* interpreter is still printing after the step)
PrintedWhileMore ==
    /\ state = "WaitingForMore"
    /\ selected_window = "Lower"
    /\ last_call'.op = "print"
    /\ ~quiet'
    /\ ~panicked'

\* the newlines stored in the scroll buffer from offset from + 1 to offset to
NewlinesStored(buf, from, to) == Cardinality({i \in (from + 1)..to : buf[i] = NL})

\* C40: text printed to the lower window in WaitingForMore is appended to the
\* scroll buffer and to the line indexes (one more line index for every
\* newline, the last one ending at the end of the buffer), and the print
\* leaves the state, the scroll offset and the top row of the lower window
\* as they were; no row of the lower window shows a line the print wrote to
\* (the line that was last, and the lines behind it).
C40_PrintWhileMoreIsPending ==
    [][PrintedWhileMore =>
          /\ scroll_buffer_length' > scroll_buffer_length
          /\ \A i \in 1..scroll_buffer_length : scroll_buffer'[i] = scroll_buffer[i]
          /\ Len(line_indexes')
                = Len(line_indexes)
                  + NewlinesStored(scroll_buffer', scroll_buffer_length, scroll_buffer_length')
          /\ line_indexes'[Len(line_indexes')].start
                + line_indexes'[Len(line_indexes')].length = scroll_buffer_length'
          /\ state' = "WaitingForMore"
          /\ scroll_window_top' = scroll_window_top
          /\ lower_window'.top_index = lower_window.top_index
          /\ \A n \in lines_shown(Self)' : n < Len(line_indexes)]_vars

\* a print made while the screen showed [MORE] has opened a line index and
\* left the screen showing [MORE]
C40_Witness ==
    /\ last_call.op = "print"
    /\ last_call.from = "WaitingForMore"
    /\ state = "WaitingForMore"
    /\ ~panicked
    /\ Len(line_indexes) > ScreenWindow_height(lower_window) + 1
    /\ lower_window.top_index = upper_window.bottom_index

====
